---- MODULE Spec2Model ----
(***************************************************************************)
(* Model of the `eager` crate: the eager!/lazy! decode engine              *)
(* (eager_internal!), the expander declarations built by                   *)
(* eager_macro_rules!, and the host's macro-call step between them.        *)
(*                                                                         *)
(* The state is the macro invocation the host is about to expand.  Every   *)
(* rule of eager_internal! is one action; macro_rules tries the rules of a *)
(* macro from first to last and applies the first that matches, so the     *)
(* guard of an action is its own pattern together with the negation of the *)
(* patterns written before it.                                             *)
(***************************************************************************)
EXTENDS Naturals, Sequences, FiniteSets, TLC

\* ------------------------------------------------------------------------
\* Token trees (tt).  A tt is one token or one delimited group.
\* ------------------------------------------------------------------------
Delims == {"Curly", "Round", "Square"}

Tok(k, s) == [kind |-> k, text |-> s, body |-> <<>>]
Ident(s) == Tok("Ident", s)
Punct(s) == Tok("Punct", s)
Lit(s) == Tok("Lit", s)
Group(d, b) == [kind |-> d, text |-> "", body |-> b]
Curly(b) == Group("Curly", b)
Round(b) == Group("Round", b)
Square(b) == Group("Square", b)

\* Fragments of a rule: `$v:tt` and the trailing catch-all `$($v:tt)*`.
Var(v) == Tok("Var", v)
Rep(v) == Tok("Rep", v)

Bang == Punct("!")
At == Punct("@")
IsGroup(t) == t.kind \in Delims
IsIdent(t) == t.kind = "Ident"

\* name ! group : the tokens of a macro invocation
Call(name, d, b) == <<Ident(name), Bang, Group(d, b)>>

\* ------------------------------------------------------------------------
\* Decoded levels: [ mode modefix prefix postfix block? ]
\* ------------------------------------------------------------------------
EagerMode == Square(<<>>)
LazyMode == Square(<<At, Ident("lazy")>>)

Level4(mode, modefix, prefix, postfix) ==
    Square(<<mode, Square(modefix), Square(prefix), Square(postfix)>>)
Level5(mode, modefix, prefix, postfix, block) ==
    Square(<<mode, Square(modefix), Square(prefix), Square(postfix), block>>)

Mode(f) == f.body[1]
Modefix(f) == f.body[2].body
Prefix(f) == f.body[3].body
Postfix(f) == f.body[4].body
HasBlock(f) == Len(f.body) = 5
Block(f) == f.body[5]

InitialLevel == Level4(EagerMode, <<>>, <<>>, <<>>)

\* ------------------------------------------------------------------------
\* macro_rules: matching a rule's pattern and transcribing its expansion
\* ------------------------------------------------------------------------
VarNames == {"a", "b", "c", "all", "eager_1"}
EmptyEnv == [v \in VarNames |-> <<>>]
NoMatch == [ok |-> FALSE, b |-> EmptyEnv]
Matched(b) == [ok |-> TRUE, b |-> b]

\* Matches the pattern against the whole token sequence, left to right.
\* `$v:tt` takes one tt, a trailing `$($v:tt)*` takes all that is left, a
\* delimited pattern takes a group of the same delimiter whose contents
\* match, and any other token must be the same token.
RECURSIVE MatchSeq(_, _, _)
MatchSeq(pat, toks, env) ==
    IF ~env.ok THEN env
    ELSE IF pat = <<>> THEN (IF toks = <<>> THEN env ELSE NoMatch)
    ELSE LET p == Head(pat) IN
         IF p.kind = "Rep" THEN Matched([env.b EXCEPT ![p.text] = toks])
         ELSE IF toks = <<>> THEN NoMatch
         ELSE LET t == Head(toks) IN
              IF p.kind = "Var"
              THEN MatchSeq(Tail(pat), Tail(toks),
                            Matched([env.b EXCEPT ![p.text] = <<t>>]))
              ELSE IF IsGroup(p)
              THEN IF t.kind = p.kind
                   THEN MatchSeq(Tail(pat), Tail(toks),
                                 MatchSeq(p.body, t.body, env))
                   ELSE NoMatch
              ELSE IF t = p THEN MatchSeq(Tail(pat), Tail(toks), env)
              ELSE NoMatch

Match(pat, toks) == MatchSeq(pat, toks, Matched(EmptyEnv))

\* Transcribes an expansion: fragments are replaced by what they matched.
RECURSIVE Transcribe(_, _)
Transcribe(exp, b) ==
    IF exp = <<>> THEN <<>>
    ELSE LET e == Head(exp) IN
         (IF e.kind \in {"Var", "Rep"} THEN b[e.text]
          ELSE IF IsGroup(e) THEN <<Group(e.kind, Transcribe(e.body, b))>>
          ELSE <<e>>) \o Transcribe(Tail(exp), b)

Rule(pat, exp) == [pat |-> pat, exp |-> exp]

\* Index of the first rule whose pattern matches, 0 when none does.
RECURSIVE FirstMatchFrom(_, _, _)
FirstMatchFrom(rules, toks, i) ==
    IF i > Len(rules) THEN 0
    ELSE IF Match(rules[i].pat, toks).ok THEN i
    ELSE FirstMatchFrom(rules, toks, i + 1)

FirstMatch(rules, toks) == FirstMatchFrom(rules, toks, 1)

\* The expansion of a macro call by the rule with index i.
Expand(rules, toks, i) == Transcribe(rules[i].exp, Match(rules[i].pat, toks).b)

\* ------------------------------------------------------------------------
\* eager_macro_rules!: the @final output, the eager supporting version of
\* every rule first, then the pure version of every rule.
\* ------------------------------------------------------------------------
\* (an eager supporting version that expands like the pure one, to compare
\* with)
EagerVersion_Unrouted(r) ==
    Rule(<<At, Ident("eager"), Square(<<Rep("eager_1")>>)>> \o r.pat, r.exp)

EagerVersion(r) ==
    Rule(<<At, Ident("eager"), Square(<<Rep("eager_1")>>)>> \o r.pat,
         <<Ident("eager_internal"), Bang,
           Curly(<<At, Ident("from_macro"), Square(<<Rep("eager_1")>>)>> \o r.exp)>>)

\* (a pure version that keeps the braces around the expansion, to compare
\* with)
PureVersion_InBraces(r) == Rule(r.pat, <<Curly(r.exp)>>)

PureVersion(r) == Rule(r.pat, r.exp)

\* (an output with the pure version of every rule first, to compare with)
Final_PureFirst(rules) ==
    [i \in 1..(2 * Len(rules)) |->
        IF i <= Len(rules) THEN PureVersion(rules[i])
        ELSE EagerVersion(rules[i - Len(rules)])]

Final(rules) ==
    [i \in 1..(2 * Len(rules)) |->
        IF i <= Len(rules) THEN EagerVersion(rules[i])
        ELSE PureVersion(rules[i - Len(rules)])]

\* ------------------------------------------------------------------------
\* Declared macros
\* ------------------------------------------------------------------------
One == Lit("1")
Two == Lit("2")
Plus == Punct("+")

\* plus_1: () => {+ 1}
Rules_plus_1 == <<Rule(<<>>, <<Plus, One>>)>>

\* mac2: { $($to_encapsulate:tt)* } => { {$($to_encapsulate)*} }
Rules_mac2 == <<Rule(<<Rep("all")>>, <<Curly(<<Rep("all")>>)>>)>>

\* test_macro: ({1}{2}) => "Success"; ({1 2}) => "Failure"; () => {{2}}
Rules_test_macro ==
    <<Rule(<<Curly(<<One>>), Curly(<<Two>>)>>, <<Lit("Success")>>),
      Rule(<<Curly(<<One, Two>>)>>, <<Lit("Failure")>>),
      Rule(<<>>, <<Curly(<<Two>>)>>)>>

\* lazy_macro, declared with macro_rules! alone: () => {1 + 1}
Rules_lazy_macro == <<Rule(<<>>, <<One, Plus, One>>)>>

\* eager!: ($($all:tt)*) => eager_internal!{@check_expansion[[[][][][]]] $($all)*}
Rules_eager ==
    <<Rule(<<Rep("all")>>,
           <<Ident("eager_internal"), Bang,
             Curly(<<At, Ident("check_expansion"), Square(<<InitialLevel>>),
                     Rep("all")>>)>>)>>

\* lazy!: ($($all:tt)*) => eager!{lazy!{$($all)*}}
Rules_lazy ==
    <<Rule(<<Rep("all")>>,
           <<Ident("eager"), Bang,
             Curly(<<Ident("lazy"), Bang, Curly(<<Rep("all")>>)>>)>>)>>

\* recursive: () => {eager!{struct recursive!{1} {}}}; (1) => {eager!{SomeStruct}}
Rules_recursive ==
    <<Rule(<<>>, Call("eager", "Curly",
                      <<Ident("struct")>> \o Call("recursive", "Curly", <<One>>)
                      \o <<Curly(<<>>)>>)),
      Rule(<<One>>, Call("eager", "Curly", <<Ident("SomeStruct")>>))>>

\* nested: () => {eager!{struct eager!{nested!{1}} {}}}; (1) => {SomeStruct}
Rules_nested ==
    <<Rule(<<>>, Call("eager", "Curly",
                      <<Ident("struct")>>
                      \o Call("eager", "Curly", Call("nested", "Curly", <<One>>))
                      \o <<Curly(<<>>)>>)),
      Rule(<<One>>, <<Ident("SomeStruct")>>)>>

\* forever: () => { forever!{} }, a macro that expands to a call of itself
Rules_forever == <<Rule(<<>>, Call("forever", "Curly", <<>>))>>

\* The macros in scope: those declared through eager_macro_rules! carry the
\* rules of its @final output, the others their own rules.
EagerEnabled ==
    [plus_1 |-> Rules_plus_1, mac2 |-> Rules_mac2, test_macro |-> Rules_test_macro,
     recursive |-> Rules_recursive, nested |-> Rules_nested,
     forever |-> Rules_forever]

Macros ==
    [n \in DOMAIN EagerEnabled |-> Final(EagerEnabled[n])]
    @@ [lazy_macro |-> Rules_lazy_macro, eager |-> Rules_eager, lazy |-> Rules_lazy]

\* ------------------------------------------------------------------------
\* The pending macro invocation, as a record s:
\*   pc          "call", "check", "from_macro", "reverse"; or "done", "error"
\*   callee      pc = "call": the token before the `!`
\*   args        pc = "call": the tokens inside the call's delimiters
\*   levels      eager_internal!: the decoded levels, top first
\*   input       eager_internal!: the tokens after the `[...]` of levels
\*   to_reverse  @reverse_tt: first list
\*   reversed    @reverse_tt: second list
\*   output      pc = "done": the tokens the invocation expanded to
\*   err         pc = "error": the compiler's error
\*   depth       number of expansions so far
\*   dispatched  the calls made by the engine: <<name token, body tokens>>
\* ------------------------------------------------------------------------
RecursionLimit == 64

Top(s) == s.levels[1]

Rest(seq, n) == SubSeq(seq, n, Len(seq))

WithTop(s, f) == <<f>> \o Tail(s.levels)

Flip(mode) == IF mode = EagerMode THEN LazyMode ELSE EagerMode

\* [$lazy:tt $modefix:tt [$($prefix:tt)*] []]
NoBlockLevel(f) == Len(f.body) = 4 /\ Postfix(f) = <<>>

\* kw ! {..} | kw ! (..) | kw ! [..] at the front of the input
KeywordNext(s, kw) ==
    /\ Len(s.input) >= 3
    /\ s.input[1] = Ident(kw)
    /\ s.input[2] = Bang
    /\ IsGroup(s.input[3])

\* The patterns of @check_expansion, in the order they are written.
P_Block(s) == NoBlockLevel(Top(s)) /\ s.input # <<>> /\ IsGroup(Head(s.input))
P_SameMode(s) ==
    /\ NoBlockLevel(Top(s))
    /\ \/ Mode(Top(s)) = EagerMode /\ KeywordNext(s, "eager")
       \/ Mode(Top(s)) = LazyMode /\ KeywordNext(s, "lazy")
P_SwitchMode(s) ==
    /\ NoBlockLevel(Top(s))
    /\ Modefix(Top(s)) = <<>>
    /\ \/ Mode(Top(s)) = LazyMode /\ KeywordNext(s, "eager")
       \/ Mode(Top(s)) = EagerMode /\ KeywordNext(s, "lazy")
P_Simple(s) == NoBlockLevel(Top(s)) /\ s.input # <<>>
\* (a decoder that never calls a macro, to compare with)
P_CallMacro_Never(s) == FALSE
P_CallMacro(s) ==
    /\ s.input = <<>>
    /\ HasBlock(Top(s))
    /\ Mode(Top(s)) = EagerMode
    /\ Len(Prefix(Top(s))) >= 2
    /\ Prefix(Top(s))[1] = Bang
P_PromoteModefix(s) ==
    /\ s.input = <<>>
    /\ NoBlockLevel(Top(s))
    /\ Modefix(Top(s)) # <<>>
P_PromotePrefix(s) ==
    /\ s.input = <<>>
    /\ Len(s.levels) >= 2
    /\ NoBlockLevel(Top(s))
    /\ Prefix(Top(s)) # <<>>
    /\ HasBlock(s.levels[2])
\* (a decoder that removes the input catcher also when it is the only level,
\* to compare with)
P_RemoveCatcher_Last(s) ==
    /\ s.input = <<>>
    /\ NoBlockLevel(Top(s))
    /\ Modefix(Top(s)) = <<>>
    /\ Prefix(Top(s)) = <<>>
    /\ \A i \in 2..Len(s.levels) : HasBlock(s.levels[i])
P_RemoveCatcher(s) ==
    /\ s.input = <<>>
    /\ Len(s.levels) >= 2
    /\ NoBlockLevel(Top(s))
    /\ Modefix(Top(s)) = <<>>
    /\ Prefix(Top(s)) = <<>>
    /\ \A i \in 2..Len(s.levels) : HasBlock(s.levels[i])
P_PromoteBlock(s) == s.input = <<>> /\ HasBlock(Top(s))
P_Finished(s) ==
    /\ s.input = <<>>
    /\ Len(s.levels) = 1
    /\ NoBlockLevel(Top(s))
    /\ Modefix(Top(s)) = <<>>

\* @from_macro[ [$lazy:tt $modefix:tt $prefix:tt [$($postfix:tt)*]] ... ]
P_FromMacro(s) ==
    Len(s.levels) >= 1 /\ Len(Top(s).body) = 4 /\ Top(s).body[4].kind = "Square"

\* (a decoder whose rule for a simple token is written first, to compare
\* with)
Selected_SimpleFirst(s) ==
    IF P_Simple(s) THEN "SimpleToken"
    ELSE IF P_CallMacro(s) THEN "CallMacro"
    ELSE IF P_PromoteModefix(s) THEN "PromoteModefix"
    ELSE IF P_PromotePrefix(s) THEN "PromotePrefix"
    ELSE IF P_RemoveCatcher(s) THEN "RemoveCatcher"
    ELSE IF P_PromoteBlock(s) THEN "PromoteBlock"
    ELSE IF P_Finished(s) THEN "Finished"
    ELSE "NoRuleInternal"

\* The rule of @check_expansion macro_rules selects: the first, in the order
\* the rules are written, whose pattern matches.
Selected(s) ==
    IF P_Block(s) THEN "CheckBlock"
    ELSE IF P_SameMode(s) THEN "IgnoreSameMode"
    ELSE IF P_SwitchMode(s) THEN "SwitchMode"
    ELSE IF P_Simple(s) THEN "SimpleToken"
    ELSE IF P_CallMacro(s) THEN "CallMacro"
    ELSE IF P_PromoteModefix(s) THEN "PromoteModefix"
    ELSE IF P_PromotePrefix(s) THEN "PromotePrefix"
    ELSE IF P_RemoveCatcher(s) THEN "RemoveCatcher"
    ELSE IF P_PromoteBlock(s) THEN "PromoteBlock"
    ELSE IF P_Finished(s) THEN "Finished"
    ELSE "NoRuleInternal"

\* ------------------------------------------------------------------------
\* eager_internal!: what each rule expands to (the three bracket types of a
\* rule are one definition, the bracket type being read from the token)
\* ------------------------------------------------------------------------

\* (a decoder that resumes with the postfix first, to compare with)
R_FromMacro_PostfixFirst(s) ==
    [s EXCEPT !.pc = "check",
              !.levels = WithTop(s, Square(<<Top(s).body[1], Top(s).body[2],
                                             Top(s).body[3], Square(<<>>)>>)),
              !.input = Postfix(Top(s)) \o s.input]

\* @from_macro: the expansion of an eager macro comes back
R_FromMacro(s) ==
    [s EXCEPT !.pc = "check",
              !.levels = WithTop(s, Square(<<Top(s).body[1], Top(s).body[2],
                                             Top(s).body[3], Square(<<>>)>>)),
              !.input = s.input \o Postfix(Top(s))]

\* (a decoder that leaves the modefix to the new level, to compare with)
R_CheckBlock_ModefixUp(s) ==
    [s EXCEPT !.levels = <<Level4(Mode(Top(s)), Modefix(Top(s)), <<>>, <<>>),
                           Level5(Mode(Top(s)), <<>>, Prefix(Top(s)),
                                  Tail(s.input), Group(Head(s.input).kind, <<>>))>>
                         \o Tail(s.levels),
              !.input = Head(s.input).body]

\* (a decoder that takes a block as it stands, to compare with)
R_CheckBlock_Undecoded(s) ==
    [s EXCEPT !.levels = <<Level4(Mode(Top(s)), <<>>, <<>>, <<>>),
                           Level5(Mode(Top(s)), Modefix(Top(s)), Prefix(Top(s)),
                                  Tail(s.input), Head(s.input))>>
                         \o Tail(s.levels),
              !.input = <<>>]

\* (a decoder that takes every block for a brace block, to compare with)
R_CheckBlock_Curly(s) ==
    [s EXCEPT !.levels = <<Level4(Mode(Top(s)), <<>>, <<>>, <<>>),
                           Level5(Mode(Top(s)), Modefix(Top(s)), Prefix(Top(s)),
                                  Tail(s.input), Curly(<<>>))>>
                         \o Tail(s.levels),
              !.input = Head(s.input).body]

\* If the next token is a block, check it
R_CheckBlock(s) ==
    [s EXCEPT !.levels = <<Level4(Mode(Top(s)), <<>>, <<>>, <<>>),
                           Level5(Mode(Top(s)), Modefix(Top(s)), Prefix(Top(s)),
                                  Tail(s.input), Group(Head(s.input).kind, <<>>))>>
                         \o Tail(s.levels),
              !.input = Head(s.input).body]

\* (a decoder that keeps the body of the ignored keyword in its delimiters,
\* to compare with)
R_IgnoreSameMode_KeepBlock(s) ==
    [s EXCEPT !.input = <<s.input[3]>> \o Rest(s.input, 4)]

\* eager! in eager mode, lazy! in lazy mode: ignore it, extracting the body
R_IgnoreSameMode(s) ==
    [s EXCEPT !.input = s.input[3].body \o Rest(s.input, 4)]

\* (a decoder that opens a level for the body of the keyword, to compare
\* with)
R_SwitchMode_NewLevel(s) ==
    [s EXCEPT !.levels = <<Level4(Flip(Mode(Top(s))), <<>>, <<>>, <<>>),
                           Level4(Mode(Top(s)), Rest(s.input, 4),
                                  Prefix(Top(s)), <<>>)>>
                         \o Tail(s.levels),
              !.input = s.input[3].body]

\* eager! in lazy mode, lazy! in eager mode
R_SwitchMode(s) ==
    [s EXCEPT !.levels = WithTop(s, Level4(Flip(Mode(Top(s))), Rest(s.input, 4),
                                           Prefix(Top(s)), <<>>)),
              !.input = s.input[3].body]

\* If the next token isn't any of the above it is safe to add it to the prefix
R_SimpleToken(s) ==
    [s EXCEPT !.levels = WithTop(s, Level4(Mode(Top(s)), Modefix(Top(s)),
                                           <<Head(s.input)>> \o Prefix(Top(s)),
                                           <<>>)),
              !.input = Tail(s.input)]

\* (a decoder that leaves the name and the `!` of a call in the prefix, to
\* compare with)
R_CallMacro_KeepingHead(s) ==
    [s EXCEPT !.pc = "call",
              !.callee = Prefix(Top(s))[2],
              !.args = <<At, Ident("eager"),
                         Square(<<Level4(EagerMode, Modefix(Top(s)),
                                         Prefix(Top(s)), Postfix(Top(s)))>>
                                \o Tail(s.levels))>>
                       \o Block(Top(s)).body,
              !.dispatched = Append(s.dispatched,
                                    <<Prefix(Top(s))[2], Block(Top(s)).body>>)]

\* (a decoder that hands over a level with no modefix and no postfix, to
\* compare with)
R_CallMacro_BareLevel(s) ==
    [s EXCEPT !.pc = "call",
              !.callee = Prefix(Top(s))[2],
              !.args = <<At, Ident("eager"),
                         Square(<<Level4(EagerMode, <<>>,
                                         Rest(Prefix(Top(s)), 3), <<>>)>>
                                \o Tail(s.levels))>>
                       \o Block(Top(s)).body,
              !.dispatched = Append(s.dispatched,
                                    <<Prefix(Top(s))[2], Block(Top(s)).body>>)]

\* No more input, the last input was a macro call, eager mode: call the macro
R_CallMacro(s) ==
    [s EXCEPT !.pc = "call",
              !.callee = Prefix(Top(s))[2],
              !.args = <<At, Ident("eager"),
                         Square(<<Level4(EagerMode, Modefix(Top(s)),
                                         Rest(Prefix(Top(s)), 3), Postfix(Top(s)))>>
                                \o Tail(s.levels))>>
                       \o Block(Top(s)).body,
              !.dispatched = Append(s.dispatched,
                                    <<Prefix(Top(s))[2], Block(Top(s)).body>>)]

\* (a decoder that changes the mode back and forgets the modefix, to compare
\* with)
R_PromoteModefix_Dropped(s) ==
    [s EXCEPT !.levels = WithTop(s, Level4(Flip(Mode(Top(s))), <<>>,
                                           Prefix(Top(s)), <<>>)),
              !.input = <<>>]

\* Promote modefix to input, in the opposite mode
R_PromoteModefix(s) ==
    [s EXCEPT !.levels = WithTop(s, Level4(Flip(Mode(Top(s))), <<>>,
                                           Prefix(Top(s)), <<>>)),
              !.input = Modefix(Top(s))]

\* (a decoder that puts the token at the end of the previous level's block,
\* to compare with)
R_PromotePrefix_AtEnd(s) ==
    [s EXCEPT !.levels =
        <<Level4(Mode(Top(s)), Modefix(Top(s)), Tail(Prefix(Top(s))), <<>>),
          Level5(Mode(s.levels[2]), Modefix(s.levels[2]), Prefix(s.levels[2]),
                 Postfix(s.levels[2]),
                 Group(Block(s.levels[2]).kind,
                       Append(Block(s.levels[2]).body, Head(Prefix(Top(s))))))>>
        \o Rest(s.levels, 3)]

\* Promote prefix: move its first token into the previous level's block
R_PromotePrefix(s) ==
    [s EXCEPT !.levels =
        <<Level4(Mode(Top(s)), Modefix(Top(s)), Tail(Prefix(Top(s))), <<>>),
          Level5(Mode(s.levels[2]), Modefix(s.levels[2]), Prefix(s.levels[2]),
                 Postfix(s.levels[2]),
                 Group(Block(s.levels[2]).kind,
                       <<Head(Prefix(Top(s)))>> \o Block(s.levels[2]).body))>>
        \o Rest(s.levels, 3)]

\* (a decoder that removes the level below the input catcher, to compare
\* with)
R_RemoveCatcher_Below(s) == [s EXCEPT !.levels = <<Top(s)>> \o Rest(s.levels, 3)]

\* No more input, prefix or postfix: remove the input catcher
R_RemoveCatcher(s) == [s EXCEPT !.levels = Tail(s.levels)]

\* (a decoder that joins a block to a block of the same type before it, to
\* compare with)
R_PromoteBlock_Merging(s) ==
    [s EXCEPT !.levels =
        WithTop(s, Level4(Mode(Top(s)), Modefix(Top(s)),
                          IF Prefix(Top(s)) # <<>>
                             /\ Head(Prefix(Top(s))).kind = Block(Top(s)).kind
                          THEN <<Group(Block(Top(s)).kind,
                                       Head(Prefix(Top(s))).body \o Block(Top(s)).body)>>
                               \o Tail(Prefix(Top(s)))
                          ELSE <<Block(Top(s))>> \o Prefix(Top(s)),
                          <<>>)),
              !.input = Postfix(Top(s))]

\* (a decoder that puts the tokens of the block, without their delimiters,
\* in the prefix, to compare with)
R_PromoteBlock_Bare(s) ==
    [s EXCEPT !.levels = WithTop(s, Level4(Mode(Top(s)), Modefix(Top(s)),
                                           Block(Top(s)).body \o Prefix(Top(s)),
                                           <<>>)),
              !.input = Postfix(Top(s))]

\* Promote block to prefix, the postfix becomes the input
R_PromoteBlock(s) ==
    [s EXCEPT !.levels = WithTop(s, Level4(Mode(Top(s)), Modefix(Top(s)),
                                           <<Block(Top(s))>> \o Prefix(Top(s)),
                                           <<>>)),
              !.input = Postfix(Top(s))]

\* (a decoder that leaves the last decoded token out of the result, to
\* compare with)
R_Finished_Short(s) ==
    [s EXCEPT !.pc = "reverse",
              !.to_reverse = IF Prefix(Top(s)) = <<>> THEN <<>>
                             ELSE Tail(Prefix(Top(s))),
              !.reversed = <<>>]

\* Finished: output the result, reversing it
R_Finished(s) ==
    [s EXCEPT !.pc = "reverse", !.to_reverse = Prefix(Top(s)), !.reversed = <<>>]

\* (a @reverse_tt that puts the token after those it has moved, to compare
\* with)
R_ReverseMore_AtEnd(s) ==
    [s EXCEPT !.to_reverse = Tail(s.to_reverse),
              !.reversed = Append(s.reversed, Head(s.to_reverse))]

\* @reverse_tt, while there is more to reverse
R_ReverseMore(s) ==
    [s EXCEPT !.to_reverse = Tail(s.to_reverse),
              !.reversed = <<Head(s.to_reverse)>> \o s.reversed]

\* @reverse_tt, done reversing
R_ReverseDone(s) ==
    [s EXCEPT !.pc = "done", !.output = <<s.to_reverse[1]>> \o s.reversed]

\* The compiler's errors
\* (a host that leaves a call it cannot expand as it is written, to compare
\* with)
Failed_Verbatim(s, e) ==
    [s EXCEPT !.pc = "done", !.output = <<s.callee, Bang, Curly(s.args)>>]

\* (a host that, at the recursion limit, keeps what has been decoded so far
\* as the result, to compare with)
Failed_Truncated(s, e) ==
    IF e = "recursion_limit"
    THEN [s EXCEPT !.pc = "done",
                   !.output = IF s.levels = <<>> THEN <<>>
                              ELSE Prefix(s.levels[Len(s.levels)])]
    ELSE [s EXCEPT !.pc = "error", !.err = e]

Failed(s, e) == [s EXCEPT !.pc = "error", !.err = e]

\* ------------------------------------------------------------------------
\* The host expands the pending call of a declared macro
\* ------------------------------------------------------------------------
Known(s) == s.callee.kind = "Ident" /\ s.callee.text \in DOMAIN Macros
Chosen(s) == FirstMatch(Macros[s.callee.text], s.args)
Expansion(s) == Expand(Macros[s.callee.text], s.args, Chosen(s))

\* name ! {...} and nothing else
IsCallOf(toks, name) ==
    Len(toks) = 3 /\ toks[1] = Ident(name) /\ toks[2] = Bang /\ IsGroup(toks[3])

\* eager_internal ! { @ tag [levels] input }
IsInternal(toks, tag) ==
    /\ IsCallOf(toks, "eager_internal")
    /\ Len(toks[3].body) >= 3
    /\ toks[3].body[1] = At
    /\ toks[3].body[2] = Ident(tag)
    /\ toks[3].body[3].kind = "Square"

\* The call is replaced by the expansion of the first matching rule.  An
\* expansion that is itself one invocation of eager_internal!, eager! or lazy!
\* is the next pending invocation; any other expansion is the result.
R_ExpandCall(s) ==
    LET e == Expansion(s) IN
    IF IsInternal(e, "from_macro") \/ IsInternal(e, "check_expansion")
    THEN [s EXCEPT !.pc = IF IsInternal(e, "from_macro") THEN "from_macro"
                          ELSE "check",
                   !.levels = e[3].body[3].body,
                   !.input = Rest(e[3].body, 4)]
    ELSE IF IsCallOf(e, "eager") \/ IsCallOf(e, "lazy")
    THEN [s EXCEPT !.callee = e[1], !.args = e[3].body]
    ELSE [s EXCEPT !.pc = "done", !.output = e]

\* ------------------------------------------------------------------------
\* One expansion step
\* ------------------------------------------------------------------------
RuleOf(s) ==
    IF s.pc \in {"done", "error"} THEN "none"
    ELSE IF s.depth >= RecursionLimit THEN "LimitReached"
    ELSE IF s.pc = "call"
    THEN (IF ~Known(s) THEN "CallUnresolved"
          ELSE IF Chosen(s) = 0 THEN "CallNoRule"
          ELSE "ExpandCall")
    ELSE IF s.pc = "from_macro"
    THEN (IF P_FromMacro(s) THEN "FromMacro" ELSE "NoRuleInternal")
    ELSE IF s.pc = "reverse"
    THEN (IF Len(s.to_reverse) >= 2 THEN "ReverseMore"
          ELSE IF Len(s.to_reverse) = 1 THEN "ReverseDone"
          ELSE "NoRuleInternal")
    ELSE Selected(s)

Tick(s) == [s EXCEPT !.depth = s.depth + 1]

Effect(rule, s) ==
    CASE rule = "FromMacro" -> R_FromMacro(s)
      [] rule = "CheckBlock" -> R_CheckBlock(s)
      [] rule = "IgnoreSameMode" -> R_IgnoreSameMode(s)
      [] rule = "SwitchMode" -> R_SwitchMode(s)
      [] rule = "SimpleToken" -> R_SimpleToken(s)
      [] rule = "CallMacro" -> R_CallMacro(s)
      [] rule = "PromoteModefix" -> R_PromoteModefix(s)
      [] rule = "PromotePrefix" -> R_PromotePrefix(s)
      [] rule = "RemoveCatcher" -> R_RemoveCatcher(s)
      [] rule = "PromoteBlock" -> R_PromoteBlock(s)
      [] rule = "Finished" -> R_Finished(s)
      [] rule = "ReverseMore" -> R_ReverseMore(s)
      [] rule = "ReverseDone" -> R_ReverseDone(s)
      [] rule = "ExpandCall" -> R_ExpandCall(s)
      [] rule = "NoRuleInternal" -> Failed(s, "no_rule")
      [] rule = "CallNoRule" -> Failed(s, "no_rule")
      [] rule = "CallUnresolved" -> Failed(s, "unresolved")
      [] rule = "LimitReached" -> Failed(s, "recursion_limit")
      [] OTHER -> s

StepOf(s) == Tick(Effect(RuleOf(s), s))

\* The invocation entry!{in} before its first expansion
Begin(entry, in) ==
    [pc |-> "call", callee |-> Ident(entry), args |-> in, levels |-> <<>>,
     input |-> <<>>, to_reverse |-> <<>>, reversed |-> <<>>, output |-> <<>>,
     err |-> "none", depth |-> 0, dispatched |-> <<>>]

\* The invocation expanded until a result or an error is reached
RECURSIVE Run(_)
Run(s) == IF s.pc \in {"done", "error"} THEN s ELSE Run(StepOf(s))

Result(entry, in) == Run(Begin(entry, in))

\* ------------------------------------------------------------------------
\* State
\* ------------------------------------------------------------------------
VARIABLES
    pc, callee, args, levels, input, to_reverse, reversed, output, err, depth,
    dispatched,  \* the fields of the pending invocation
    entry0,      \* the macro the program invoked
    input0,      \* and its arguments
    rpc, rest, prev, grammar, emitted,    \* eager_macro_rules!, see below
    caller, call_args, applied, replacement,
    decl0

engine_vars == <<pc, callee, args, levels, input, to_reverse, reversed, output,
                 err, depth, dispatched, entry0, input0>>
rules_vars == <<rpc, rest, prev, grammar, emitted, caller, call_args, applied,
                replacement, decl0>>
vars == <<engine_vars, rules_vars>>

Cur ==
    [pc |-> pc, callee |-> callee, args |-> args, levels |-> levels,
     input |-> input, to_reverse |-> to_reverse, reversed |-> reversed,
     output |-> output, err |-> err, depth |-> depth, dispatched |-> dispatched]

Becomes(t) ==
    /\ pc' = t.pc
    /\ callee' = t.callee
    /\ args' = t.args
    /\ levels' = t.levels
    /\ input' = t.input
    /\ to_reverse' = t.to_reverse
    /\ reversed' = t.reversed
    /\ output' = t.output
    /\ err' = t.err
    /\ depth' = t.depth
    /\ dispatched' = t.dispatched
    /\ UNCHANGED <<entry0, input0>>
    /\ UNCHANGED rules_vars

\* One action for each rule of eager_internal! and each outcome of a call
FromMacro == RuleOf(Cur) = "FromMacro" /\ Becomes(StepOf(Cur))
CheckBlock == RuleOf(Cur) = "CheckBlock" /\ Becomes(StepOf(Cur))
IgnoreSameMode == RuleOf(Cur) = "IgnoreSameMode" /\ Becomes(StepOf(Cur))
SwitchMode == RuleOf(Cur) = "SwitchMode" /\ Becomes(StepOf(Cur))
SimpleToken == RuleOf(Cur) = "SimpleToken" /\ Becomes(StepOf(Cur))
CallMacro == RuleOf(Cur) = "CallMacro" /\ Becomes(StepOf(Cur))
PromoteModefix == RuleOf(Cur) = "PromoteModefix" /\ Becomes(StepOf(Cur))
PromotePrefix == RuleOf(Cur) = "PromotePrefix" /\ Becomes(StepOf(Cur))
RemoveCatcher == RuleOf(Cur) = "RemoveCatcher" /\ Becomes(StepOf(Cur))
PromoteBlock == RuleOf(Cur) = "PromoteBlock" /\ Becomes(StepOf(Cur))
Finished == RuleOf(Cur) = "Finished" /\ Becomes(StepOf(Cur))
ReverseMore == RuleOf(Cur) = "ReverseMore" /\ Becomes(StepOf(Cur))
ReverseDone == RuleOf(Cur) = "ReverseDone" /\ Becomes(StepOf(Cur))
NoRuleInternal == RuleOf(Cur) = "NoRuleInternal" /\ Becomes(StepOf(Cur))
ExpandCall == RuleOf(Cur) = "ExpandCall" /\ Becomes(StepOf(Cur))
CallUnresolved == RuleOf(Cur) = "CallUnresolved" /\ Becomes(StepOf(Cur))
CallNoRule == RuleOf(Cur) = "CallNoRule" /\ Becomes(StepOf(Cur))
LimitReached == RuleOf(Cur) = "LimitReached" /\ Becomes(StepOf(Cur))

Next ==
    \/ FromMacro
    \/ CheckBlock
    \/ IgnoreSameMode
    \/ SwitchMode
    \/ SimpleToken
    \/ CallMacro
    \/ PromoteModefix
    \/ PromotePrefix
    \/ RemoveCatcher
    \/ PromoteBlock
    \/ Finished
    \/ ReverseMore
    \/ ReverseDone
    \/ NoRuleInternal
    \/ ExpandCall
    \/ CallUnresolved
    \/ CallNoRule
    \/ LimitReached

\* ------------------------------------------------------------------------
\* Programs: the macro invoked and its arguments
\* ------------------------------------------------------------------------
A == Ident("a")
B == Ident("b")

\* Tokens before and after a wrapped part
Pre == {<<>>, <<A>>}
Post == {<<>>, <<B>>}

Leaves ==
    {<<>>, <<One>>, Call("plus_1", "Round", <<>>), Call("lazy_macro", "Curly", <<>>)}

\* x inside a block, a region or the arguments of a call
Regions(x) == {Call("eager", "Curly", x), Call("lazy", "Curly", x)}
Wrap(x) ==
    {<<Curly(x)>>, <<Round(x)>>, <<Square(x)>>, Call("mac2", "Curly", x),
     Call("test_macro", "Round", x)} \cup Regions(x)

Padded(S) == {pre \o w \o post : pre \in Pre, post \in Post,
                                 w \in UNION {Wrap(x) : x \in S}}
PaddedRegions(S) == {pre \o w \o post : pre \in Pre, post \in Post,
                                        w \in UNION {Regions(x) : x \in S}}

Gen1 == Leaves \cup Padded(Leaves)
Gen2 == Gen1 \cup Padded(Gen1)
Regions3 == PaddedRegions(PaddedRegions(PaddedRegions(Leaves)))

\* Calls of the macros of the tests, and of a macro that is not declared
OtherCalls ==
    {Call("recursive", "Curly", <<>>), Call("recursive", "Round", <<One>>),
     Call("nested", "Curly", <<>>), Call("undeclared", "Round", <<>>)}
Others == OtherCalls \cup Padded(OtherCalls)

\* Up to MaxItems blocks and block producing calls, one after the other
MaxItems == 2
Items == {<<Curly(<<One>>)>>, <<Curly(<<Two>>)>>, <<Round(<<One>>)>>,
          Call("test_macro", "Round", <<>>)}
RECURSIVE Rows(_)
Rows(n) ==
    IF n = 0 THEN {<<>>}
    ELSE Rows(n - 1) \cup {r \o i : r \in Rows(n - 1), i \in Items}
Adjacent == Rows(MaxItems) \cup {Call("test_macro", "Round", r) : r \in Rows(MaxItems)}

\* A call marker and a group after a token that is not a name, or after
\* nothing
Eq == Punct("=")
NotCalls ==
    {<<One, Bang, Round(<<A>>)>>, <<Eq, Bang, Round(<<A>>)>>,
     <<Round(<<A>>), Bang, Round(<<B>>)>>, <<Bang, Round(<<A>>)>>}
Marked == NotCalls \cup Padded(NotCalls)

\* Blocks of every type nested up to MaxDepth deep, between tokens
MaxDepth == 4
RECURSIVE Nested(_)
Nested(n) ==
    IF n = 0 THEN {<<One>>}
    ELSE Nested(n - 1)
         \cup {<<A, Group(d, x), B>> : d \in Delims, x \in Nested(n - 1)}

\* Up to MaxCalls tokens and calls, one after the other
MaxCalls == 3
CallItems == {<<Two>>, Call("plus_1", "Round", <<>>),
              Call("mac2", "Curly", <<One>>), Call("test_macro", "Round", <<>>)}
RECURSIVE Siblings(_)
Siblings(n) ==
    IF n = 0 THEN {<<>>}
    ELSE Siblings(n - 1) \cup {r \o i : r \in Siblings(n - 1), i \in CallItems}

Inputs ==
    Gen2 \cup Regions3 \cup Others \cup Adjacent \cup Marked \cup Nested(MaxDepth)
    \cup Siblings(MaxCalls)

Programs ==
    ({"eager"} \X Inputs) \cup ({"lazy"} \X (Gen1 \cup Others \cup Adjacent))

\* The program invokes entry!{in}
Start(entry, in) ==
    /\ pc = Begin(entry, in).pc
    /\ callee = Begin(entry, in).callee
    /\ args = Begin(entry, in).args
    /\ levels = Begin(entry, in).levels
    /\ input = Begin(entry, in).input
    /\ to_reverse = Begin(entry, in).to_reverse
    /\ reversed = Begin(entry, in).reversed
    /\ output = Begin(entry, in).output
    /\ err = Begin(entry, in).err
    /\ depth = Begin(entry, in).depth
    /\ dispatched = Begin(entry, in).dispatched
    /\ entry0 = entry
    /\ input0 = in

\* No macro is being declared
NoDeclaration ==
    /\ rpc = "none"
    /\ rest = <<>>
    /\ prev = <<>>
    /\ grammar = <<>>
    /\ emitted = <<>>
    /\ caller = "none"
    /\ call_args = <<>>
    /\ applied = 0
    /\ replacement = <<>>
    /\ decl0 = <<>>

Init == NoDeclaration /\ \E p \in Programs : Start(p[1], p[2])

Spec == Init /\ [][Next]_vars

\* ------------------------------------------------------------------------
\* eager_macro_rules!: a macro is declared, rule by rule, and then called
\*   rpc          "eager_macro_rules", "first", "expansion", "final": the
\*                pending invocation; "declared": the macro_rules! is emitted;
\*                "called", "no_rule": the outcome of a call of the macro;
\*                "error": no macro_rules! was emitted
\*   rest         the rules still to be read: the block type and the tokens
\*                of the grammar, the block type and the tokens of the
\*                expansion
\*   prev         the rules read so far, each as {grammar} => {expansion}
\*   grammar      @expansion: the grammar whose expansion is read next
\*   emitted      the rules of the macro_rules! that was emitted
\*   caller       who calls the macro: "program" or "eager"
\*   call_args    the tokens inside the delimiters of the call
\*   applied      the rule of emitted that the call is expanded by, 0: none
\*   replacement  what the call is replaced by
\*   decl0        the rules as the program declared them
\* ------------------------------------------------------------------------
Declared(pd, pat, ed, exp) == [pd |-> pd, pat |-> pat, ed |-> ed, exp |-> exp]

\* eager_macro_rules!{ $eager_1 macro_rules! name { rules } }
EagerMacroRules ==
    /\ rpc = "eager_macro_rules"
    /\ rpc' = "first"
    /\ UNCHANGED <<rest, prev, grammar, emitted, caller, call_args, applied,
                   replacement, decl0>>
    /\ UNCHANGED engine_vars

\* @first with a rule left: its grammar is taken out of its block
FirstNext ==
    /\ rpc = "first"
    /\ rest # <<>>
    /\ Head(rest).pd \in Delims
    /\ rpc' = "expansion"
    /\ grammar' = Head(rest).pat
    /\ UNCHANGED <<rest, prev, emitted, caller, call_args, applied, replacement,
                   decl0>>
    /\ UNCHANGED engine_vars

\* (an @expansion that puts the rule before the rules read before, to
\* compare with)
ExpansionNext_Before ==
    /\ rpc = "expansion"
    /\ Head(rest).ed \in Delims
    /\ rpc' = "first"
    /\ prev' = <<Rule(grammar, Head(rest).exp)>> \o prev
    /\ rest' = Tail(rest)
    /\ grammar' = <<>>
    /\ UNCHANGED <<emitted, caller, call_args, applied, replacement, decl0>>
    /\ UNCHANGED engine_vars

\* @expansion: the expansion is taken out of its block, and the rule is put
\* after the rules read before as {grammar} => {expansion}
ExpansionNext ==
    /\ rpc = "expansion"
    /\ Head(rest).ed \in Delims
    /\ rpc' = "first"
    /\ prev' = Append(prev, Rule(grammar, Head(rest).exp))
    /\ rest' = Tail(rest)
    /\ grammar' = <<>>
    /\ UNCHANGED <<emitted, caller, call_args, applied, replacement, decl0>>
    /\ UNCHANGED engine_vars

\* @first with no rule left
FirstDone ==
    /\ rpc = "first"
    /\ rest = <<>>
    /\ rpc' = "final"
    /\ UNCHANGED <<rest, prev, grammar, emitted, caller, call_args, applied,
                   replacement, decl0>>
    /\ UNCHANGED engine_vars

\* @final: the macro_rules! is emitted
FinalOutput ==
    /\ rpc = "final"
    /\ prev # <<>>
    /\ rpc' = "declared"
    /\ emitted' = Final(prev)
    /\ UNCHANGED <<rest, prev, grammar, caller, call_args, applied, replacement,
                   decl0>>
    /\ UNCHANGED engine_vars

\* @final without a rule: its pattern asks for one rule at least
FinalNoRule ==
    /\ rpc = "final"
    /\ prev = <<>>
    /\ rpc' = "error"
    /\ UNCHANGED <<rest, prev, grammar, emitted, caller, call_args, applied,
                   replacement, decl0>>
    /\ UNCHANGED engine_vars

\* The arguments eager! hands to the macro it calls in the input: those of
\* the first call of a macro other than eager! and lazy!
RECURSIVE ToDispatch(_)
ToDispatch(s) ==
    IF s.pc \in {"done", "error"}
       \/ (s.pc = "call" /\ s.callee \notin {Ident("eager"), Ident("lazy")})
    THEN s
    ELSE ToDispatch(StepOf(s))

DispatchArgs(in) == ToDispatch(Begin("eager", in)).args

\* The arguments of the calls of the declared macro ...
UserArgs == {<<>>, <<One>>, <<Two>>, <<One, Two, One>>, <<Curly(<<One>>)>>}

\* ... made by eager!, in the middle of its input or as the whole of it
ByEager ==
    {DispatchArgs(pre \o Call("user", "Round", a) \o post) :
        pre \in Pre, post \in Post, a \in UserArgs}

\* ... and written in the program, also with `@eager[..]` in front
ByProgram ==
    UserArgs \cup {<<At, Ident("eager"), Square(<<InitialLevel>>)>> \o a :
                      a \in {<<>>, <<One>>}}

Calls == ({"eager"} \X ByEager) \cup ({"program"} \X ByProgram)

\* The declared macro is called: the first rule that matches is expanded
CallDeclared ==
    /\ rpc = "declared"
    /\ \E c \in Calls :
        /\ FirstMatch(emitted, c[2]) # 0
        /\ caller' = c[1]
        /\ call_args' = c[2]
        /\ applied' = FirstMatch(emitted, c[2])
        /\ replacement' = Expand(emitted, c[2], FirstMatch(emitted, c[2]))
    /\ rpc' = "called"
    /\ UNCHANGED <<rest, prev, grammar, emitted, decl0>>
    /\ UNCHANGED engine_vars

\* The declared macro is called and none of its rules matches
CallDeclaredNoRule ==
    /\ rpc = "declared"
    /\ \E c \in Calls :
        /\ FirstMatch(emitted, c[2]) = 0
        /\ caller' = c[1]
        /\ call_args' = c[2]
    /\ rpc' = "no_rule"
    /\ UNCHANGED <<rest, prev, grammar, emitted, applied, replacement, decl0>>
    /\ UNCHANGED engine_vars

NextRules ==
    \/ EagerMacroRules
    \/ FirstNext
    \/ ExpansionNext
    \/ FirstDone
    \/ FinalOutput
    \/ FinalNoRule
    \/ CallDeclared
    \/ CallDeclaredNoRule

\* The declarations: up to MaxRules rules, of these grammars and expansions
\* and in these block types
MaxRules == 2
Grammars ==
    {<<<<>>, <<Plus, One>>>>,
     <<<<One>>, <<Ident("SomeStruct")>>>>,
     <<<<Rep("all")>>, <<Curly(<<Rep("all")>>)>>>>,
     <<<<Var("a"), Rep("all")>>, <<Var("a")>>>>,
     <<<<Var("a"), Var("b"), Var("c")>>, <<Var("c"), Var("b")>>>>}
BlockTypes == {<<"Curly", "Round">>, <<"Round", "Square">>, <<"Square", "Curly">>}
\* a rule with blocks in its grammar and in its expansion, ({1}) => ((2)),
\* written in each of the nine pairs of block types
InBlocks ==
    {Declared(pd, <<Curly(<<One>>)>>, ed, <<Round(<<Two>>)>>) :
        pd \in Delims, ed \in Delims}
DeclaredRules ==
    {Declared(d[1], g[1], d[2], g[2]) : d \in BlockTypes, g \in Grammars}
    \cup InBlocks
RECURSIVE Declarations(_)
Declarations(n) ==
    IF n = 0 THEN {<<>>}
    ELSE Declarations(n - 1)
         \cup {Append(ds, r) : ds \in Declarations(n - 1), r \in DeclaredRules}

\* No invocation of eager! is pending
NoProgram ==
    /\ pc = "done"
    /\ callee = Ident("none")
    /\ args = <<>>
    /\ levels = <<>>
    /\ input = <<>>
    /\ to_reverse = <<>>
    /\ reversed = <<>>
    /\ output = <<>>
    /\ err = "none"
    /\ depth = 0
    /\ dispatched = <<>>
    /\ entry0 = "none"
    /\ input0 = <<>>

InitRules ==
    /\ NoProgram
    /\ rpc = "eager_macro_rules"
    /\ decl0 \in Declarations(MaxRules)
    /\ rest = decl0
    /\ prev = <<>>
    /\ grammar = <<>>
    /\ emitted = <<>>
    /\ caller = "none"
    /\ call_args = <<>>
    /\ applied = 0
    /\ replacement = <<>>

SpecRules == InitRules /\ [][NextRules]_vars

\* ------------------------------------------------------------------------
\* Reference: call-by-value expansion by textual substitution
\* ------------------------------------------------------------------------
Keywords == {"eager", "lazy"}

\* The identifiers of a token sequence, at every depth
RECURSIVE Idents(_)
Idents(toks) ==
    IF toks = <<>> THEN {}
    ELSE (IF IsIdent(Head(toks)) THEN {Head(toks).text}
          ELSE IF IsGroup(Head(toks)) THEN Idents(Head(toks).body)
          ELSE {}) \cup Idents(Tail(toks))

\* name ! group at the front of the tokens
IsInvocation(toks) ==
    Len(toks) >= 3 /\ IsIdent(toks[1]) /\ toks[2] = Bang /\ IsGroup(toks[3])

\* The names invoked in a token sequence, at every depth
RECURSIVE Invoked(_)
Invoked(toks) ==
    IF toks = <<>> THEN {}
    ELSE (IF IsInvocation(toks) THEN {toks[1].text} ELSE {})
         \cup (IF IsGroup(Head(toks)) THEN Invoked(Head(toks).body) ELSE {})
         \cup Invoked(Tail(toks))

\* The eager-enabled macros whose expansions hold no mode keyword
PlainExpanders ==
    {n \in DOMAIN EagerEnabled :
        \A i \in 1..Len(EagerEnabled[n]) :
            Idents(EagerEnabled[n][i].exp) \cap Keywords = {}}

\* Ordinary tokens, groups and invocations of those macros only
Plain(toks) == Idents(toks) \cap Keywords = {} /\ Invoked(toks) \subseteq PlainExpanders

\* Substitutes the leftmost innermost invocation by the expansion its
\* macro_rules! declaration gives.  found: there was an invocation;
\* ok: a rule of its macro matched.
RECURSIVE ReduceOnce(_)
ReduceOnce(toks) ==
    IF toks = <<>> THEN [found |-> FALSE, ok |-> TRUE, toks |-> <<>>]
    ELSE IF IsInvocation(toks)
    THEN LET inner == ReduceOnce(toks[3].body)
             rules == EagerEnabled[toks[1].text]
             i == FirstMatch(rules, toks[3].body)
         IN  IF inner.found
             THEN [inner EXCEPT !.toks = <<toks[1], toks[2],
                                           Group(toks[3].kind, inner.toks)>>
                                         \o Rest(toks, 4)]
             ELSE IF i = 0 THEN [found |-> TRUE, ok |-> FALSE, toks |-> toks]
             ELSE [found |-> TRUE, ok |-> TRUE,
                   toks |-> Expand(rules, toks[3].body, i) \o Rest(toks, 4)]
    ELSE LET inner == IF IsGroup(Head(toks)) THEN ReduceOnce(Head(toks).body)
                      ELSE [found |-> FALSE, ok |-> TRUE, toks |-> <<>>]
             after == ReduceOnce(Tail(toks))
         IN  IF inner.found
             THEN [inner EXCEPT !.toks = <<Group(Head(toks).kind, inner.toks)>>
                                         \o Tail(toks)]
             ELSE [after EXCEPT !.toks = <<Head(toks)>> \o after.toks]

\* ... repeated until no invocation remains
RECURSIVE RefEager(_)
RefEager(toks) ==
    LET r == ReduceOnce(toks) IN
    IF r.found /\ r.ok THEN RefEager(r.toks)
    ELSE [ok |-> ~r.found, toks |-> r.toks]

\* ------------------------------------------------------------------------
\* Properties
\* ------------------------------------------------------------------------

C2_CallByValue ==
    (entry0 = "eager" /\ "lazy" \notin Idents(input0)) =>
        \A i \in 1..Len(dispatched) : Invoked(dispatched[i][2]) = {}

C2_Witness ==
    /\ pc = "call"
    /\ entry0 = "eager"
    /\ input0 = Call("mac2", "Curly", Call("plus_1", "Round", <<>>)) \o <<B>>
    /\ dispatched = << <<Ident("plus_1"), <<>> >>, <<Ident("mac2"), <<Plus, One>> >> >>

\* ------------------------------------------------------------------------
\* Regions: the mode every invocation of the input is written in
\* ------------------------------------------------------------------------

\* The invocations (name ! group) of macros other than eager! and lazy! that
\* are written in one of the modes of want.  The mode is "eager" at the top
\* of eager!{..}, "lazy" inside lazy!{..}, and "eager_in_lazy" inside an
\* eager!{..} that stands inside a lazy!{..}; a block keeps the mode.
RECURSIVE CallsIn(_, _, _)
CallsIn(toks, mode, want) ==
    IF toks = <<>> THEN {}
    ELSE IF IsInvocation(toks) /\ toks[1].text \in Keywords
    THEN CallsIn(toks[3].body,
                 IF toks[1].text = "lazy" THEN "lazy"
                 ELSE IF mode = "eager" THEN "eager" ELSE "eager_in_lazy",
                 want)
         \cup CallsIn(Rest(toks, 4), mode, want)
    ELSE IF IsInvocation(toks)
    THEN (IF mode \in want THEN {SubSeq(toks, 1, 3)} ELSE {})
         \cup CallsIn(toks[3].body, mode, want)
         \cup CallsIn(Rest(toks, 4), mode, want)
    ELSE (IF IsGroup(Head(toks)) THEN CallsIn(Head(toks).body, mode, want)
          ELSE {})
         \cup CallsIn(Tail(toks), mode, want)

LazyCalls(entry, in) == CallsIn(in, entry, {"lazy"})
EagerCalls(entry, in) == CallsIn(in, entry, {"eager", "eager_in_lazy"})
ReenabledCalls(entry, in) == CallsIn(in, entry, {"eager_in_lazy"})
AllCalls(in) == CallsIn(in, "eager", {"eager", "lazy", "eager_in_lazy"})

\* What the regions mean: in eager mode an invocation is replaced by the
\* expansion of its macro for the expanded arguments, and the expansion is
\* expanded in turn; in lazy mode it stays; the keywords and the delimiters
\* of their bodies go.
RECURSIVE RefModes(_, _)
RefModes(toks, lazy) ==
    IF toks = <<>> THEN [ok |-> TRUE, toks |-> <<>>]
    ELSE IF IsInvocation(toks) /\ toks[1].text \in Keywords
    THEN LET r == RefModes(toks[3].body, toks[1].text = "lazy")
             t == RefModes(Rest(toks, 4), lazy)
         IN  [ok |-> r.ok /\ t.ok, toks |-> r.toks \o t.toks]
    ELSE IF IsInvocation(toks) /\ ~lazy
    THEN LET a == RefModes(toks[3].body, FALSE)
             known == toks[1].text \in DOMAIN EagerEnabled
             i == IF known /\ a.ok
                  THEN FirstMatch(EagerEnabled[toks[1].text], a.toks) ELSE 0
         IN  IF i = 0 THEN [ok |-> FALSE, toks |-> <<>>]
             ELSE RefModes(Expand(EagerEnabled[toks[1].text], a.toks, i)
                           \o Rest(toks, 4), FALSE)
    ELSE LET h == IF IsGroup(Head(toks))
                  THEN RefModes(Head(toks).body, lazy)
                  ELSE [ok |-> TRUE, toks |-> <<>>]
             t == RefModes(Tail(toks), lazy)
         IN  [ok |-> h.ok /\ t.ok,
              toks |-> (IF IsGroup(Head(toks))
                        THEN <<Group(Head(toks).kind, h.toks)>>
                        ELSE <<Head(toks)>>) \o t.toks]

\* No macro other than eager! and lazy! is handed a mode keyword
ArgsKeywordFree(toks) ==
    \A c \in AllCalls(toks) : Idents(c[3].body) \cap Keywords = {}

\* The tokens c stand, one after the other, somewhere in toks
RECURSIVE Occurs(_, _)
Occurs(c, toks) ==
    /\ toks # <<>>
    /\ \/ Len(toks) >= Len(c) /\ SubSeq(toks, 1, Len(c)) = c
       \/ IsGroup(Head(toks)) /\ Occurs(c, Head(toks).body)
       \/ Occurs(c, Tail(toks))

\* C3 (mode restriction): an invocation written in lazy mode is not called
\* by the decoder and stands in the output as it was written.
C3_ModeRestriction ==
    ArgsKeywordFree(input0) =>
        /\ \A i \in 1..Len(dispatched) :
               \A c \in LazyCalls(entry0, input0) :
                   dispatched[i][1] = c[1] =>
                       \E e \in EagerCalls(entry0, input0) : e[1] = c[1]
        /\ pc = "done" => \A c \in LazyCalls(entry0, input0) : Occurs(c, output)

\* C4 (re-enabled expansion): an invocation written in an eager!{..} inside
\* a lazy!{..} is called by the decoder, and the output holds its expansion,
\* whatever stands before and after the eager!{..} and after the lazy!{..}.
C4_ReenabledExpansion ==
    (ArgsKeywordFree(input0) /\ ReenabledCalls(entry0, input0) # {} /\ pc = "done") =>
        /\ \A c \in ReenabledCalls(entry0, input0) :
               \E i \in 1..Len(dispatched) : dispatched[i][1] = c[1]
        /\ RefModes(input0, entry0 = "lazy").ok
        /\ output = RefModes(input0, entry0 = "lazy").toks

\* C5 (mode keywords are not invocations): the decoder never calls a macro
\* named eager or lazy.
C5_KeywordsNotDispatched ==
    \A i \in 1..Len(dispatched) :
        dispatched[i][1] \notin {Ident("eager"), Ident("lazy")}

\* What the macro_rules! declaration of name gives for the arguments
Replacement(name, arguments) ==
    Expand(EagerEnabled[name], arguments, FirstMatch(EagerEnabled[name], arguments))

\* The steps from a block to the resumption after the call made of it
C6_Step ==
    \* the block is met: what follows it is kept as the postfix of its level
    /\ (pc = "check" /\ pc' = "check" /\ Len(levels') = Len(levels) + 1) =>
           /\ Postfix(levels'[2]) = Tail(input)
           /\ Prefix(levels'[2]) = Prefix(levels[1])
    \* the call is made: the levels go with it
    /\ (pc = "check" /\ pc' = "call") =>
           /\ Len(args') >= 3
           /\ Postfix(args'[3].body[1]) = Postfix(levels[1])
           /\ Tail(args'[3].body) = Tail(levels)
    \* the replacement arrives, with the levels as they were sent
    /\ (pc = "call" /\ pc' = "from_macro") =>
           /\ levels' = args[3].body
           /\ input' = Replacement(callee.text, Rest(args, 4))
    \* decoding resumes in the same level: the replacement, then the postfix
    /\ (pc = "from_macro" /\ pc' = "check") =>
           /\ input' = input \o Postfix(levels[1])
           /\ Len(levels') = Len(levels)
           /\ Tail(levels') = Tail(levels)
           /\ Mode(levels'[1]) = Mode(levels[1])
           /\ Modefix(levels'[1]) = Modefix(levels[1])
           /\ Prefix(levels'[1]) = Prefix(levels[1])
           /\ Postfix(levels'[1]) = <<>>

\* The first invocation at the top of the input, when only single tokens
\* stand before and after it
Before(in) ==
    SubSeq(in, 1, CHOOSE i \in 0..Len(in) :
                      i + 3 <= Len(in) /\ IsInvocation(Rest(in, i + 1)))
IsBetweenTokens(in) ==
    \E i \in 0..Len(in) :
        /\ i + 3 <= Len(in)
        /\ IsInvocation(Rest(in, i + 1))
        /\ in[i + 1].text \notin Keywords
        /\ \A j \in (1..i) \cup ((i + 4)..Len(in)) : in[j].kind \in {"Ident", "Lit"}
TheCall(in) == SubSeq(in, Len(Before(in)) + 1, Len(Before(in)) + 3)
After(in) == Rest(in, Len(Before(in)) + 4)

\* ... in the output the decoded replacement stands where the invocation stood
C6_Output ==
    (entry0 = "eager" /\ IsBetweenTokens(input0) /\ pc = "done") =>
        /\ Result("eager", TheCall(input0)).pc = "done"
        /\ output = Before(input0) \o Result("eager", TheCall(input0)).output
                    \o After(input0)

\* C6 (resumption splice): when the replacement of a called macro arrives,
\* decoding resumes in the same level with the replacement followed by the
\* tokens that followed the invocation's block; in the output the decoded
\* replacement stands after what preceded the invocation and before what
\* followed it.
C6_ResumptionSplice == [][C6_Step]_vars /\ []C6_Output

C6_Witness ==
    /\ pc = "check"
    /\ entry0 = "eager"
    /\ input0 = <<A>> \o Call("mac2", "Curly", <<One>>) \o <<B>>
    /\ dispatched = << <<Ident("mac2"), <<One>> >> >>
    /\ input = <<Curly(<<One>>), B>>
    /\ levels = <<Level4(EagerMode, <<>>, <<A>>, <<>>)>>

\* A row of blocks: every test_macro!() in it gives the block {2}
RECURSIVE Separate(_)
Separate(toks) ==
    IF toks = <<>> THEN <<>>
    ELSE IF IsInvocation(toks) /\ toks[1] = Ident("test_macro") /\ toks[3].body = <<>>
    THEN Replacement("test_macro", <<>>) \o Separate(Rest(toks, 4))
    ELSE <<Head(toks)>> \o Separate(Tail(toks))

IsRow(toks) ==
    /\ toks # <<>>
    /\ \A i \in 1..Len(Separate(toks)) :
           /\ IsGroup(Separate(toks)[i])
           /\ \A j \in 1..Len(Separate(toks)[i].body) :
                  Separate(toks)[i].body[j].kind = "Lit"

\* C7 (non-merging of adjacent blocks): blocks that stand one after the
\* other, in the input or once an expansion has put a block next to another,
\* reach the output and the called macro as that many blocks, each with its
\* own contents.
C7_NonMerging ==
    /\ (entry0 = "eager" /\ IsRow(input0) /\ pc = "done") =>
           output = Separate(input0)
    /\ (entry0 = "lazy" /\ IsRow(input0) /\ pc = "done") => output = input0
    /\ (entry0 = "eager" /\ IsCallOf(input0, "test_macro") /\ IsRow(input0[3].body)) =>
           /\ \A i \in 1..Len(dispatched) :
                  (dispatched[i][1] = Ident("test_macro") /\ dispatched[i][2] # <<>>)
                      => dispatched[i][2] = Separate(input0[3].body)
           /\ pc = "done" =>
                  output = Replacement("test_macro", Separate(input0[3].body))

C7_Witness ==
    /\ pc = "done"
    /\ entry0 = "eager"
    /\ input0 = Call("test_macro", "Round",
                     <<Curly(<<One>>)>> \o Call("test_macro", "Round", <<>>))
    /\ dispatched[2] = <<Ident("test_macro"), <<Curly(<<One>>), Curly(<<Two>>)>> >>
    /\ output = <<Lit("Success")>>

\* ------------------------------------------------------------------------
\* The tokens a pending invocation stands for
\* ------------------------------------------------------------------------
RECURSIVE Reverse(_)
Reverse(seq) == IF seq = <<>> THEN <<>> ELSE Append(Reverse(Tail(seq)), Head(seq))

\* A level around the tokens decoded inside it: its prefix is kept in
\* reverse, its block holds the end of the block being decoded.
Enclose(f, inner) ==
    Reverse(Prefix(f))
    \o (IF HasBlock(f) THEN <<Group(Block(f).kind, inner \o Block(f).body)>>
        ELSE inner)
    \o Postfix(f) \o Modefix(f)

RECURSIVE Unfold(_, _)
Unfold(lvls, inner) ==
    IF lvls = <<>> THEN inner ELSE Unfold(Tail(lvls), Enclose(Head(lvls), inner))

\* callee!{@eager[levels] body}, a call made by the decoder
IsDecoderCall(s) ==
    /\ s.pc = "call"
    /\ Len(s.args) >= 3
    /\ s.args[1] = At /\ s.args[2] = Ident("eager") /\ s.args[3].kind = "Square"

TextOf(s) ==
    IF s.pc = "done" THEN s.output
    ELSE IF s.pc = "reverse" THEN Reverse(s.to_reverse) \o s.reversed
    ELSE IF s.pc \in {"check", "from_macro"} THEN Unfold(s.levels, s.input)
    ELSE IF IsDecoderCall(s)
    THEN Unfold(s.args[3].body, <<s.callee, Bang, Curly(Rest(s.args, 4))>>)
    ELSE IF s.pc = "call" /\ s.callee = Ident("lazy")
    THEN Call("lazy", "Curly", s.args)
    ELSE IF s.pc = "call" THEN s.args
    ELSE <<>>

Text == TextOf(Cur)

\* The delimiters of the blocks of a token sequence, outermost first
RECURSIVE Kinds(_)
Kinds(toks) ==
    IF toks = <<>> THEN <<>>
    ELSE (IF IsGroup(Head(toks))
          THEN <<Head(toks).kind>> \o Kinds(Head(toks).body) ELSE <<>>)
         \o Kinds(Tail(toks))

CountOf(k, seq) == Cardinality({i \in 1..Len(seq) : seq[i] = k})

\* The text with the keyword at the front of the input taken away, its body
\* left in its place
KeywordRemoved ==
    TextOf([Cur EXCEPT !.input = input[3].body \o Rest(input, 4)])

\* The text with the block of the top level in braces, as its call is written
BlockInBraces ==
    TextOf([Cur EXCEPT !.levels =
                WithTop(Cur, Level5(Mode(levels[1]), Modefix(levels[1]),
                                    Prefix(levels[1]), Postfix(levels[1]),
                                    Curly(Block(levels[1]).body)))])

\* The text with the call replaced by what its macro_rules! declaration gives
CallReplaced == Unfold(args[3].body, Replacement(callee.text, Rest(args, 4)))

C8_Step ==
    /\ pc' # "error" =>
        \/ Kinds(Text') = Kinds(Text)
        \/ /\ pc = "check" /\ pc' = "check"
           /\ IsInvocation(input) /\ input[1].text \in Keywords
           /\ Kinds(Text') = Kinds(KeywordRemoved)
        \/ /\ pc = "check" /\ pc' = "call"
           /\ Kinds(Text') = Kinds(BlockInBraces)
        \/ /\ IsDecoderCall(Cur) /\ pc' = "from_macro"
           /\ Kinds(Text') = Kinds(CallReplaced)
        \/ /\ IsDecoderCall(Cur) /\ pc' = "call"
           /\ \A k \in Delims : CountOf(k, Kinds(Text)) <= CountOf(k, Kinds(Text'))

\* C8 (delimiter preservation): every step of the expansion leaves each
\* block of the pending text its delimiters, at every depth and in both
\* modes; the only blocks that go are the body of a keyword the decoder
\* removes and the arguments of a macro it calls, which are written in braces
\* and replaced by the macro's expansion (a called macro that is not
\* eager!-enabled gets the levels as tokens, the blocks in them as they
\* are); the output is the last such text.
C8_DelimiterPreservation ==
    /\ [][C8_Step]_vars
    /\ [](pc = "call" /\ depth = 0 /\ entry0 = "eager" => Text = input0)
    /\ [](pc = "done" => Text = output)

C8_Witness ==
    /\ pc = "done"
    /\ entry0 = "eager"
    /\ input0 = <<A, Round(<<Square(<<One>>), B>>)>>
    /\ output = <<A, Round(<<Square(<<One>>), B>>)>>

\* The tokens without the keywords that repeat the mode they stand in: the
\* body of an eager!{..} met in eager mode, or of a lazy!{..} met in lazy
\* mode, takes the place of the keyword.
RECURSIVE UnwrapSame(_, _)
UnwrapSame(toks, mode) ==
    IF toks = <<>> THEN <<>>
    ELSE IF IsInvocation(toks) /\ toks[1].text = mode
    THEN UnwrapSame(toks[3].body, mode) \o UnwrapSame(Rest(toks, 4), mode)
    ELSE IF IsInvocation(toks) /\ toks[1].text \in Keywords
    THEN <<toks[1], toks[2], Group(toks[3].kind, UnwrapSame(toks[3].body, toks[1].text))>>
         \o UnwrapSame(Rest(toks, 4), mode)
    ELSE (IF IsGroup(Head(toks))
          THEN <<Group(Head(toks).kind, UnwrapSame(Head(toks).body, mode))>>
          ELSE <<Head(toks)>>)
         \o UnwrapSame(Tail(toks), mode)

\* C9 (mode re-entry is a no-op): the output for an input is the output for
\* the same input without the keywords that repeat the mode they stand in.
C9_ModeReentryNoOp ==
    (pc = "done" /\ UnwrapSame(input0, entry0) # input0) =>
        /\ Result(entry0, UnwrapSame(input0, entry0)).pc = "done"
        /\ Result(entry0, UnwrapSame(input0, entry0)).output = output

\* The tokens with the body of every eager!{..} among them in its place
RECURSIVE StripEager(_)
StripEager(toks) ==
    IF toks = <<>> THEN <<>>
    ELSE IF IsInvocation(toks) /\ toks[1].text = "eager"
    THEN StripEager(toks[3].body) \o StripEager(Rest(toks, 4))
    ELSE IF IsInvocation(toks) /\ toks[1].text = "lazy"
    THEN SubSeq(toks, 1, 3) \o StripEager(Rest(toks, 4))
    ELSE <<Head(toks)>> \o StripEager(Tail(toks))

\* C10 (an eager!{..} in an expansion is ignored): when the expansion of a
\* called macro comes back holding an eager!{..}, the output is the output
\* the expansion with only the body of that eager!{..} gives.
C10_EagerInExpansionIgnored ==
    (pc = "from_macro" /\ StripEager(input) # input /\ Run(Cur).pc = "done") =>
        /\ Run([Cur EXCEPT !.input = StripEager(input)]).pc = "done"
        /\ Run([Cur EXCEPT !.input = StripEager(input)]).output = Run(Cur).output

C10_Witness ==
    /\ pc = "from_macro"
    /\ entry0 = "eager"
    /\ input0 = <<A, Curly(Call("recursive", "Round", <<One>>)), B>>
    /\ input = Call("eager", "Curly", <<Ident("SomeStruct")>>)
    /\ Mode(levels[1]) = EagerMode
    /\ Run(Cur).output = <<A, Curly(<<Ident("SomeStruct")>>), B>>

\* ------------------------------------------------------------------------
\* C11 (identity on plain input): eager!{in}, for a non-empty in that holds
\* no name ! group and no mode keyword at any depth, expands to in, token for
\* token, whatever blocks it nests; the only failure is the host's recursion
\* limit.
PlainInput(toks) ==
    toks # <<>> /\ Invoked(toks) = {} /\ Idents(toks) \cap Keywords = {}

C11_IdentityOnPlainInput ==
    (entry0 = "eager" /\ PlainInput(input0)) =>
        /\ pc = "done" => output = input0
        /\ pc = "error" => err = "recursion_limit"

\* ------------------------------------------------------------------------
\* C12 (the entry returns for arbitrary input): while eager!{in} is being
\* expanded, for any in (the empty one included) that invokes nothing but
\* eager!, lazy! and eager-enabled macros, a rule of eager_internal! applies
\* to every decode state: the expansion never stops where no rule matches.
Resolving(toks) == Invoked(toks) \subseteq Keywords \cup DOMAIN EagerEnabled

NoRuleApplies ==
    pc \in {"check", "from_macro", "reverse"} /\ RuleOf(Cur) = "NoRuleInternal"

C12_EntryReturns == (entry0 = "eager" /\ Resolving(input0)) => ~NoRuleApplies

\* ------------------------------------------------------------------------
\* Sibling invocations
\* ------------------------------------------------------------------------

\* The invocations at the top of the tokens, from left to right, as the name
\* and the arguments of each
RECURSIVE CallsOf(_)
CallsOf(toks) ==
    IF toks = <<>> THEN <<>>
    ELSE IF IsInvocation(toks)
    THEN <<<<toks[1], toks[3].body>>>> \o CallsOf(Rest(toks, 4))
    ELSE CallsOf(Tail(toks))

\* The tokens with every invocation at the top replaced, where it stands, by
\* what the macro_rules! declaration of its macro gives
RECURSIVE InPlace(_)
InPlace(toks) ==
    IF toks = <<>> THEN <<>>
    ELSE IF IsInvocation(toks)
    THEN Replacement(toks[1].text, toks[3].body) \o InPlace(Rest(toks, 4))
    ELSE <<Head(toks)>> \o InPlace(Tail(toks))

\* There is a `!` in the tokens, at some depth
RECURSIVE HasCallMarker(_)
HasCallMarker(toks) ==
    /\ toks # <<>>
    /\ \/ Head(toks) = Bang
       \/ IsGroup(Head(toks)) /\ HasCallMarker(Head(toks).body)
       \/ HasCallMarker(Tail(toks))

\* Ordinary tokens and invocations only, the invocations being of eager
\* enabled macros that a rule of the macro matches, with arguments and
\* expansions of ordinary tokens and blocks, without `!` or mode keyword
RECURSIVE IsSiblingRow(_)
IsSiblingRow(toks) ==
    IF toks = <<>> THEN TRUE
    ELSE IF IsInvocation(toks)
    THEN /\ toks[1].text \in PlainExpanders
         /\ ~HasCallMarker(toks[3].body)
         /\ Idents(toks[3].body) \cap Keywords = {}
         /\ FirstMatch(EagerEnabled[toks[1].text], toks[3].body) # 0
         /\ PlainInput(Replacement(toks[1].text, toks[3].body))
         /\ ~HasCallMarker(Replacement(toks[1].text, toks[3].body))
         /\ IsSiblingRow(Rest(toks, 4))
    ELSE Head(toks).kind \in {"Ident", "Lit"} /\ IsSiblingRow(Tail(toks))

\* C13 (sibling invocations): while eager!{in} is expanded, for in made of
\* ordinary tokens and k >= 1 invocations one after the other, the calls made
\* so far are the first invocations of in from left to right, each once; in
\* the output every invocation is replaced where it stood by its expansion,
\* the ordinary tokens keeping their places.
C13_SiblingsLeftToRight ==
    (entry0 = "eager" /\ IsSiblingRow(input0) /\ CallsOf(input0) # <<>>) =>
        /\ \E n \in 0..Len(CallsOf(input0)) :
               dispatched = SubSeq(CallsOf(input0), 1, n)
        /\ pc = "done" => /\ dispatched = CallsOf(input0)
                          /\ output = InPlace(input0)
        /\ pc = "error" => err = "recursion_limit"

\* 2 plus_1!() plus_1!() has given 2 + 1 + 1
C13_Witness ==
    /\ pc = "done"
    /\ entry0 = "eager"
    /\ input0 = <<Two>> \o Call("plus_1", "Round", <<>>)
                \o Call("plus_1", "Round", <<>>)
    /\ output = <<Two, Plus, One, Plus, One>>
    /\ Len(dispatched) = 2

\* ------------------------------------------------------------------------
\* The macro_rules! that eager_macro_rules! emits
\* ------------------------------------------------------------------------

\* A rule in the eager supporting form:
\* {@eager[$($eager_1:tt)*] ..} => {eager_internal!{@from_macro[$($eager_1)*] ..}}
IsEagerVersion(r) ==
    /\ Len(r.pat) >= 3
    /\ SubSeq(r.pat, 1, 3) = <<At, Ident("eager"), Square(<<Rep("eager_1")>>)>>
    /\ IsInternal(r.exp, "from_macro")
    /\ r.exp[3].body[3] = Square(<<Rep("eager_1")>>)

EagerVersionsFirst(rules) ==
    \A i, j \in 1..Len(rules) :
        (IsEagerVersion(rules[i]) /\ ~IsEagerVersion(rules[j])) => i < j

\* C14 (registry ordering): in the macro_rules! emitted for a declaration,
\* whatever the number of its rules and their grammars, every eager
\* supporting rule stands before every pure rule; so it is in the macros the
\* programs call.
C14_RegistryOrdering ==
    /\ EagerVersionsFirst(emitted)
    /\ rpc = "declared" => \E i, j \in 1..Len(emitted) :
                               IsEagerVersion(emitted[i]) /\ ~IsEagerVersion(emitted[j])
    /\ \A n \in DOMAIN EagerEnabled : EagerVersionsFirst(Macros[n])

\* two rules were declared, the first with `$($all:tt)*` for its grammar
C14_Witness ==
    /\ rpc = "declared"
    /\ Len(decl0) = 2
    /\ decl0[1].pat = <<Rep("all")>>
    /\ Len(emitted) = 4
    /\ IsEagerVersion(emitted[2])
    /\ emitted[3].pat = <<Rep("all")>>

\* The macro_rules! of the declaration, had it been written without
\* eager_macro_rules!
UserRules == [i \in 1..Len(decl0) |-> Rule(decl0[i].pat, decl0[i].exp)]

\* A call made by eager!: `@eager`, the levels, and then the arguments written
\* in the input
Levels == call_args[3]
Written == Rest(call_args, 4)

\* C15 (first-match dispatch): when eager! has called the declared macro with
\* arguments that a declared rule matches, the rule applied is the eager
\* supporting version of the first declared rule that matches, and the call
\* is replaced by eager_internal!{@from_macro[levels] expansion}, the levels
\* being those of the call and the expansion that of the declared rule;
\* wherever a `$($all:tt)*` rule stands in the declaration.
C15_FirstMatchDispatch ==
    (rpc \in {"called", "no_rule"} /\ caller = "eager"
       /\ FirstMatch(UserRules, Written) # 0) =>
        /\ rpc = "called"
        /\ applied = FirstMatch(UserRules, Written)
        /\ IsEagerVersion(emitted[applied])
        /\ replacement =
               <<Ident("eager_internal"), Bang,
                 Curly(<<At, Ident("from_macro"), Levels>>
                       \o Expand(UserRules, Written, applied))>>

\* `(1) => ..; ($($all:tt)*) => ..` was called by eager! for `a user!(2) b`
C15_Witness ==
    /\ rpc = "called"
    /\ caller = "eager"
    /\ Len(decl0) = 2
    /\ decl0[1].pat = <<One>>
    /\ decl0[2].pat = <<Rep("all")>>
    /\ Written = <<Two>>
    /\ Prefix(Levels.body[1]) = <<A>>
    /\ applied = 2

\* C16 (no matching rule is fatal): when eager! has called the declared macro
\* with arguments that no declared rule matches, the call fails for want of a
\* rule: no pure rule is applied to `@eager[levels] arguments` and there is no
\* replacement.
C16_NoMatchIsFatal ==
    (rpc \in {"called", "no_rule"} /\ caller = "eager"
       /\ FirstMatch(UserRules, Written) = 0) =>
        /\ rpc = "no_rule"
        /\ applied = 0
        /\ replacement = <<>>

\* ------------------------------------------------------------------------
\* C17 (an unresolved invocation is fatal): when eager! has called a macro
\* that is not declared, the next step is the failure of the expansion, at
\* that call: nothing more is dispatched and there is no output; from a
\* failure no step is taken, and a failed expansion has no output.
C17_Step ==
    /\ (pc = "call" /\ ~Known(Cur) /\ depth < RecursionLimit) =>
           /\ pc' = "error"
           /\ err' = "unresolved"
           /\ output' = <<>>
           /\ dispatched' = dispatched
           /\ callee' = callee
    /\ pc # "error"

C17_Failure == pc = "error" => (output = <<>> /\ RuleOf(Cur) = "none")

ByUserRules(arguments) ==
    Expand(UserRules, arguments, FirstMatch(UserRules, arguments))

\* The arguments begin like those of a call made by eager!: @eager[..]
BeginsLikeEagerCall(arguments) ==
    /\ Len(arguments) >= 3
    /\ arguments[1] = At
    /\ arguments[2] = Ident("eager")
    /\ arguments[3].kind = "Square"

\* C18, as the spec states it (plain-form equivalence): when the program has
\* called the declared macro with arguments that a declared rule matches, the
\* call is replaced by what the macro_rules! of the declaration gives for
\* these arguments.
C18_AsStated ==
    (rpc \in {"called", "no_rule"} /\ caller = "program"
       /\ FirstMatch(UserRules, call_args) # 0) =>
        /\ rpc = "called"
        /\ replacement = ByUserRules(call_args)

\* C18, amended: it is so when the arguments do not begin with `@eager[..]`;
\* the rule applied is then the pure version of the first declared rule that
\* matches.
C18_PlainFormEquivalence ==
    (rpc \in {"called", "no_rule"} /\ caller = "program"
       /\ FirstMatch(UserRules, call_args) # 0
       /\ ~BeginsLikeEagerCall(call_args)) =>
        /\ rpc = "called"
        /\ applied = Len(decl0) + FirstMatch(UserRules, call_args)
        /\ ~IsEagerVersion(emitted[applied])
        /\ replacement = ByUserRules(call_args)

\* `($a:tt $b:tt $c:tt) => ..; ($($all:tt)*) => ..` was called with (1 2 1)
C18_Witness ==
    /\ rpc = "called"
    /\ caller = "program"
    /\ Len(decl0) = 2
    /\ decl0[1].pat = <<Var("a"), Var("b"), Var("c")>>
    /\ decl0[2].pat = <<Rep("all")>>
    /\ call_args = <<One, Two, One>>
    /\ applied = 3
    /\ replacement = <<One, Two>>

\* ------------------------------------------------------------------------
\* C19 (lazy! on its own): lazy!{in} written outside eager! ends as
\* eager!{lazy!{in}} ends, with the same output; and when in holds no eager!
\* it does not fail (but for the host's recursion limit) and its output is in
\* as it was written, every invocation left as it is.
C19_StandAloneLazy ==
    entry0 = "lazy" =>
        /\ pc \in {"done", "error"} =>
               /\ pc = Result("eager", Call("lazy", "Curly", input0)).pc
               /\ output = Result("eager", Call("lazy", "Curly", input0)).output
        /\ "eager" \notin Idents(input0) =>
               /\ pc = "error" => err = "recursion_limit"
               /\ pc = "done" => output = input0
               /\ dispatched = <<>>

\* ------------------------------------------------------------------------
\* C20 (mode-switch step): from every decode state whose input begins with
\* the keyword of the other mode (lazy!{..} in eager mode, eager!{..} in lazy
\* mode), whatever the modefix of the top level is, the step taken keeps what
\* follows the keyword's block as the modefix, changes the mode and goes on
\* with the tokens of the block; the keyword does not go to the prefix.
OtherModeKeywordNext ==
    /\ pc = "check"
    /\ depth < RecursionLimit
    /\ NoBlockLevel(levels[1])
    /\ \/ Mode(levels[1]) = LazyMode /\ KeywordNext(Cur, "eager")
       \/ Mode(levels[1]) = EagerMode /\ KeywordNext(Cur, "lazy")

C20_Step ==
    OtherModeKeywordNext =>
        /\ pc' = "check"
        /\ Len(levels') = Len(levels)
        /\ Mode(levels'[1]) = Flip(Mode(levels[1]))
        /\ Modefix(levels'[1]) = Rest(input, 4)
        /\ Prefix(levels'[1]) = Prefix(levels[1])
        /\ Tail(levels') = Tail(levels)
        /\ input' = input[3].body

C20_ModeSwitchStep == [][C20_Step]_vars

\* ------------------------------------------------------------------------
\* The step that calls a macro, and what the call hands over
Dispatching == pc = "check" /\ pc' = "call"

\* the call made by eager_internal!: name!{@eager[levels] body}
IsDispatched ==
    /\ pc = "call"
    /\ Len(args) >= 3
    /\ args[1] = At
    /\ args[2] = Ident("eager")
    /\ args[3].kind = "Square"
    /\ args[3].body # <<>>

\* C21, as the spec states it (the level handed over at a call): at every
\* step that calls a macro, the first level handed to the macro has the mode
\* of the top level, an empty modefix, the prefix without the `!` and the
\* name, and an empty postfix.
C21_StepAsStated ==
    Dispatching =>
        args'[3].body[1] = Level4(Mode(levels[1]), <<>>,
                                  Rest(Prefix(levels[1]), 3), <<>>)

C21_AsStated == [][C21_StepAsStated]_vars

\* C21, amended: at every step that calls a macro, the first level handed to
\* the macro has the mode of the top level (eager), the modefix and the
\* postfix of the top level as they stand, and the prefix without the `!` and
\* the name; the levels below are handed over as they are and the block's
\* tokens are the arguments.
C21_Step ==
    Dispatching =>
        /\ Mode(levels[1]) = EagerMode
        /\ args' = <<At, Ident("eager"),
                     Square(<<Level4(Mode(levels[1]), Modefix(levels[1]),
                                     Rest(Prefix(levels[1]), 3),
                                     Postfix(levels[1]))>>
                            \o Tail(levels))>>
                   \o Block(levels[1]).body

C21_ResumptionLevel == [][C21_Step]_vars

\* a macro has been called from a level with a modefix and a postfix
C21_Witness ==
    /\ IsDispatched
    /\ Modefix(args[3].body[1]) # <<>>
    /\ Postfix(args[3].body[1]) # <<>>
    /\ Prefix(args[3].body[1]) # <<>>

\* ------------------------------------------------------------------------
\* C22 (call or promote): from every decode state with no input whose top
\* level holds a decoded block, a macro is called only if the level is in
\* eager mode and its prefix begins (in reverse) with `!` and, before it, a
\* name; in every other case -- a block, a literal or punctuation before the
\* `!`, nothing before it, no `!`, or lazy mode -- the next step puts the
\* block at the front of the prefix and goes on decoding.
BlockDecoded ==
    /\ pc = "check"
    /\ depth < RecursionLimit
    /\ input = <<>>
    /\ HasBlock(levels[1])

InvocationHead(f) ==
    /\ Len(Prefix(f)) >= 2
    /\ Prefix(f)[1] = Bang
    /\ IsIdent(Prefix(f)[2])

C22_Step ==
    BlockDecoded =>
        /\ pc' = "call" => (Mode(levels[1]) = EagerMode /\ InvocationHead(levels[1]))
        /\ ~(Mode(levels[1]) = EagerMode /\ InvocationHead(levels[1])) =>
               /\ pc' = "check"
               /\ Len(levels') = Len(levels)
               /\ Prefix(levels'[1]) = <<Block(levels[1])>> \o Prefix(levels[1])

C22_DispatchOrPromote == [][C22_Step]_vars

\* ------------------------------------------------------------------------
\* C23 (the modefix goes back to the input): the modefix of the top level is
\* moved into the input only when there is no input and the level has no
\* block; that step changes the mode of the level to the other one, empties
\* the modefix and leaves the prefix and the levels below as they are.  So a
\* level that keeps tokens in its modefix keeps them and its mode until that
\* step: the tokens that follow a region are decoded in the mode the level had
\* before the region began.

\* the k-th level from the bottom of the stack
LevelAt(lvls, k) == lvls[Len(lvls) - k + 1]

\* the decode step that empties the modefix of the top level
ModefixLeaves ==
    /\ pc = "check"
    /\ pc' = "check"
    /\ Len(levels') = Len(levels)
    /\ Modefix(levels[1]) # <<>>
    /\ Modefix(levels'[1]) = <<>>

C23_Promotion ==
    ModefixLeaves =>
        /\ input = <<>>
        /\ NoBlockLevel(levels[1])
        /\ input' = Modefix(levels[1])
        /\ Mode(levels'[1]) = Flip(Mode(levels[1]))
        /\ Prefix(levels'[1]) = Prefix(levels[1])
        /\ Tail(levels') = Tail(levels)

\* a level with tokens in its modefix either keeps the modefix and its mode,
\* or is the top level of the step above; the level is never dropped
C23_Kept ==
    \A k \in 1..Len(levels) :
        Modefix(LevelAt(levels, k)) # <<>> =>
            /\ k <= Len(levels')
            /\ \/ /\ Modefix(LevelAt(levels', k)) = Modefix(LevelAt(levels, k))
                  /\ Mode(LevelAt(levels', k)) = Mode(LevelAt(levels, k))
               \/ k = Len(levels) /\ ModefixLeaves

C23_Step == C23_Promotion /\ C23_Kept

C23_ModefixPromotion == [][C23_Step]_vars

\* ------------------------------------------------------------------------
\* The step that begins to decode the body of the keyword of the other mode
RegionBegins ==
    /\ OtherModeKeywordNext
    /\ pc' = "check"
    /\ input' = input[3].body
    /\ Mode(levels'[1]) = Flip(Mode(levels[1]))

\* C24, as the spec states it (a region is a level of its own): the step that
\* begins to decode the body of the keyword of the other mode adds a level.
C24_StepAsStated == RegionBegins => Len(levels') = Len(levels) + 1

C24_Step ==
    /\ RegionBegins =>
           /\ Len(levels') = Len(levels)
           /\ Tail(levels') = Tail(levels)
    /\ (pc = "check" /\ pc' = "check" /\ Len(levels') > Len(levels)) =>
           /\ input # <<>>
           /\ IsGroup(Head(input))
           /\ Len(levels') = Len(levels) + 1
           /\ HasBlock(levels'[2])

Popped == pc = "check" /\ pc' = "check" /\ Len(levels') < Len(levels)

\* C25 (when a level is removed): a decode step removes a level only from a
\* state with more than one level and no input, and the level removed is the
\* top one, with no block, an empty postfix, an empty modefix and an empty
\* prefix, its tokens being in the block of the level below; the levels below
\* are kept.  So a level with tokens in its modefix is never removed.
C25_Step ==
    Popped =>
        /\ Len(levels) > 1
        /\ levels' = Tail(levels)
        /\ input = <<>>
        /\ input' = <<>>
        /\ ~HasBlock(levels[1])
        /\ Postfix(levels[1]) = <<>>
        /\ Modefix(levels[1]) = <<>>
        /\ Prefix(levels[1]) = <<>>
        /\ HasBlock(levels[2])

C25_PopPrecondition == [][C25_Step]_vars

\* the upper of three levels has been removed: the level now on top holds the
\* decoded tokens of its block
C25_Witness ==
    /\ pc = "check"
    /\ input = <<>>
    /\ Len(levels) = 2
    /\ HasBlock(levels[1])
    /\ Block(levels[1]).body # <<>>
    /\ HasBlock(levels[2])

\* ------------------------------------------------------------------------
\* The top level has decoded the tokens of a block: no input is left, nor
\* modefix, and the block of the level below is still empty
PopBegins(s) ==
    /\ s.pc = "check"
    /\ s.input = <<>>
    /\ Len(s.levels) >= 2
    /\ NoBlockLevel(Top(s))
    /\ Modefix(Top(s)) = <<>>
    /\ HasBlock(s.levels[2])
    /\ Block(s.levels[2]).body = <<>>

\* The steps of the decoder up to the one that removes a level from the n
\* levels
RECURSIVE PopFrom(_, _)
PopFrom(s, n) ==
    IF s.pc # "check" \/ Len(s.levels) < n THEN s ELSE PopFrom(StepOf(s), n)

\* C26 (what the removal of a level leaves): when the top level has decoded
\* the tokens of a block, the decoder comes (short of the recursion limit) to
\* a state with that level removed in which the block of the level below
\* holds the tokens of the removed level's prefix in the order they were
\* decoded (the prefix reversed), in the delimiters it had, and the mode, the
\* modefix, the prefix and the postfix of that level, and the levels below
\* it, are as they were.
C26_Effect ==
    (PopBegins(Cur) /\ depth + Len(Prefix(levels[1])) < RecursionLimit) =>
        LET t == PopFrom(Cur, Len(levels)) IN
        /\ t.pc = "check"
        /\ Len(t.levels) = Len(levels) - 1
        /\ HasBlock(Top(t))
        /\ Block(Top(t)).body = Reverse(Prefix(levels[1]))
        /\ Block(Top(t)).kind = Block(levels[2]).kind
        /\ Mode(Top(t)) = Mode(levels[2])
        /\ Modefix(Top(t)) = Modefix(levels[2])
        /\ Prefix(Top(t)) = Prefix(levels[2])
        /\ Postfix(Top(t)) = Postfix(levels[2])
        /\ Tail(t.levels) = Rest(levels, 3)
        /\ t.input = <<>>

\* from the step that opens it to the removal of the level above it, the
\* block of a level below the top keeps its delimiters
C26_KindKept ==
    (pc = "check" /\ pc' = "check") =>
        \A k \in 1..(Len(levels) - 1) :
            /\ k <= Len(levels')
            /\ HasBlock(LevelAt(levels, k))
            /\ HasBlock(LevelAt(levels', k))
            /\ Block(LevelAt(levels', k)).kind = Block(LevelAt(levels, k)).kind

C26_PopEffect == []C26_Effect /\ [][C26_KindKept]_vars

\* a level has been removed and its tokens, two different ones at least, are
\* in the block in parentheses of the level now on top
C26_Witness ==
    /\ pc = "check"
    /\ input = <<>>
    /\ HasBlock(levels[1])
    /\ Block(levels[1]).kind = "Round"
    /\ Len(Block(levels[1]).body) >= 2
    /\ Block(levels[1]).body[1] # Block(levels[1]).body[2]

\* ------------------------------------------------------------------------
\* C27 (when the decoding is finished): @reverse_tt is entered only from a
\* decode state with exactly one level, no input, no block, an empty postfix
\* and an empty modefix, and it is given the whole prefix of that level, with
\* nothing reversed yet; and a result is put out only by @reverse_tt, never by
\* a decode step: so never from a state with more than one level or with
\* tokens in a modefix.
C27_Step ==
    /\ (pc # "reverse" /\ pc' = "reverse") =>
           /\ pc = "check"
           /\ Len(levels) = 1
           /\ input = <<>>
           /\ ~HasBlock(levels[1])
           /\ Postfix(levels[1]) = <<>>
           /\ Modefix(levels[1]) = <<>>
           /\ to_reverse' = Prefix(levels[1])
           /\ reversed' = <<>>
    /\ (pc # "done" /\ pc' = "done") => pc = "reverse"
    /\ output' # output => pc' = "done"

C27_Completion == [][C27_Step]_vars

\* the decoding of a {1} b has finished: @reverse_tt holds the prefix
\* `b {1} a` of the only level
C27_Witness ==
    /\ pc = "reverse"
    /\ input0 = <<A, Curly(<<One>>), B>>
    /\ to_reverse = <<B, Curly(<<One>>), A>>
    /\ reversed = <<>>
    /\ levels = <<Level4(EagerMode, <<>>, to_reverse, <<>>)>>

\* ------------------------------------------------------------------------
\* The decode step that takes the block of the top level away without
\* calling a macro
BlockPromoted ==
    /\ BlockDecoded
    /\ pc' = "check"

\* C28 (the block goes to the prefix): the step that promotes the decoded
\* block of the top level puts the block, in its delimiters, at the front of
\* the prefix, makes the postfix of the level the input, and leaves the level
\* without block and with an empty postfix; the mode and the modefix of the
\* level and the levels below are as they were.  Until that step the postfix
\* is kept as it is: while a level holds a postfix, no decode step changes it
\* and the level is not the one being decoded into.
C28_Step ==
    /\ BlockPromoted =>
           /\ levels' = <<Level4(Mode(levels[1]), Modefix(levels[1]),
                                 <<Group(Block(levels[1]).kind,
                                         Block(levels[1]).body)>>
                                 \o Prefix(levels[1]),
                                 <<>>)>>
                        \o Tail(levels)
           /\ input' = Postfix(levels[1])
    /\ (pc = "check" /\ pc' = "check") =>
           \A k \in 1..Len(levels) :
               Postfix(LevelAt(levels, k)) # <<>> =>
                   /\ HasBlock(LevelAt(levels, k))
                   /\ k <= Len(levels')
                   /\ \/ Postfix(LevelAt(levels', k)) = Postfix(LevelAt(levels, k))
                      \/ k = Len(levels) /\ BlockPromoted

C28_PromotionStep == [][C28_Step]_vars

\* inside a block being decoded, the block [1] has been promoted to the
\* prefix of the top level and the token after it is the input
C28_Witness ==
    /\ pc = "check"
    /\ Len(levels) >= 2
    /\ ~HasBlock(levels[1])
    /\ Prefix(levels[1]) # <<>>
    /\ Head(Prefix(levels[1])) = Square(<<One>>)
    /\ input = <<B>>

\* ------------------------------------------------------------------------
\* The next token of the input is a block
BlockNext ==
    /\ pc = "check"
    /\ depth < RecursionLimit
    /\ input # <<>>
    /\ IsGroup(Head(input))

\* C29 (a level is added for a block): from every decode state whose input
\* begins with a block, the step taken adds exactly one level; the new top
\* level has the mode of the level that was on top and an empty modefix,
\* prefix and postfix, and no block; the level that was on top keeps its mode,
\* modefix and prefix, takes the tokens after the block as its postfix and an
\* empty block with the delimiters of the block met; the levels below are
\* kept and the input becomes the tokens of the block.
C29_Step ==
    BlockNext =>
        /\ pc' = "check"
        /\ Len(levels') = Len(levels) + 1
        /\ levels'[1] = Level4(Mode(levels[1]), <<>>, <<>>, <<>>)
        /\ Mode(levels'[2]) = Mode(levels[1])
        /\ Modefix(levels'[2]) = Modefix(levels[1])
        /\ Prefix(levels'[2]) = Prefix(levels[1])
        /\ Postfix(levels'[2]) = Tail(input)
        /\ HasBlock(levels'[2])
        /\ Block(levels'[2]) = Group(Head(input).kind, <<>>)
        /\ Rest(levels', 3) = Tail(levels)
        /\ input' = Head(input).body

C29_DescendStep == [][C29_Step]_vars

\* a level has been added for a block in parentheses met in lazy mode, with a
\* token after it: the level below waits with its prefix and that postfix
C29_Witness ==
    /\ pc = "check"
    /\ Len(levels) >= 2
    /\ levels[1] = Level4(LazyMode, <<>>, <<>>, <<>>)
    /\ HasBlock(levels[2])
    /\ Block(levels[2]) = Round(<<>>)
    /\ Mode(levels[2]) = LazyMode
    /\ Prefix(levels[2]) # <<>>
    /\ Postfix(levels[2]) # <<>>
    /\ input # <<>>

\* ------------------------------------------------------------------------
\* C30 (the levels come back as they were sent): whenever the decoder calls a
\* macro and the call does not fail, the next step brings the expansion back
\* to @from_macro and the one after resumes the decoding, with no decode step
\* in between; the decoding resumes with as many levels as there were at the
\* call, those below the top identical and in the same order, the top one
\* with the same mode and modefix, its prefix without the `!` and the name,
\* no block and no postfix, and the input is not decoded before.
AboutToCall ==
    /\ pc = "check"
    /\ RuleOf(Cur) = "CallMacro"
    /\ depth + 3 <= RecursionLimit

C30_SuspendResume ==
    AboutToCall =>
        LET called == StepOf(Cur)
            back == StepOf(called)
            resumed == StepOf(back)
        IN  /\ called.pc = "call"
            /\ back.pc # "error" =>
                   /\ back.pc = "from_macro"
                   /\ Tail(back.levels) = Tail(levels)
                   /\ resumed.pc = "check"
                   /\ Len(resumed.levels) = Len(levels)
                   /\ Tail(resumed.levels) = Tail(levels)
                   /\ Top(resumed) = Level4(Mode(levels[1]), Modefix(levels[1]),
                                            Rest(Prefix(levels[1]), 3), <<>>)
                   /\ resumed.input = back.input \o Postfix(levels[1])
                   /\ resumed.dispatched = called.dispatched

\* ------------------------------------------------------------------------
\* The rules of eager_internal! and the outcomes of a call: each is the guard
\* of one step
StepNames ==
    {"FromMacro", "CheckBlock", "IgnoreSameMode", "SwitchMode", "SimpleToken",
     "CallMacro", "PromoteModefix", "PromotePrefix", "RemoveCatcher",
     "PromoteBlock", "Finished", "ReverseMore", "ReverseDone",
     "NoRuleInternal", "ExpandCall", "CallUnresolved", "CallNoRule",
     "LimitReached"}

\* The state n steps after s
RECURSIVE StateAfter(_, _)
StateAfter(s, n) == IF n = 0 THEN s ELSE StateAfter(StepOf(s), n - 1)

\* A decode state that has the levels and the input only
Decoding(lvls, in) ==
    [pc |-> "check", callee |-> Ident("none"), args |-> <<>>, levels |-> lvls,
     input |-> in, to_reverse |-> <<>>, reversed |-> <<>>, output |-> <<>>,
     err |-> "none", depth |-> 0, dispatched |-> <<>>]

\* the input begins with the keyword of the mode the top level is in
SameModeKeywordNext ==
    \/ Mode(levels[1]) = EagerMode /\ KeywordNext(Cur, "eager")
    \/ Mode(levels[1]) = LazyMode /\ KeywordNext(Cur, "lazy")

\* C31 (one step, decided by the levels and the input): in every state that
\* is not final the rule selected is that of exactly one step, and in a final
\* state of none; and the state reached after any number of steps is the one
\* state that the program invoked comes to after that many steps, so two
\* expansions of the same program go through the same states to the same
\* output.
C31_OneStep ==
    /\ pc \in {"done", "error"} => RuleOf(Cur) \notin StepNames
    /\ pc \notin {"done", "error"} => RuleOf(Cur) \in StepNames
    /\ Cur = StateAfter(Begin(entry0, input0), depth)

\* The step taken from a decode state (short of the recursion limit) is the
\* one the levels and the input decide, whatever was called before; and when
\* there is input, it is one of four, by what the input begins with: a block
\* adds a level; else the keyword of the same mode is replaced by the tokens
\* of its block; else, if the mode changes, the keyword of the other mode was
\* next; else the first token goes to the prefix.
C31_Step ==
    (pc = "check" /\ depth < RecursionLimit) =>
        /\ LET t == StepOf(Decoding(levels, input)) IN
           /\ pc' = t.pc
           /\ levels' = t.levels
           /\ input' = t.input
           /\ to_reverse' = t.to_reverse
           /\ pc' = "call" => (callee' = t.callee /\ args' = t.args)
        /\ (input # <<>> /\ NoBlockLevel(levels[1])) =>
           /\ pc' = "check"
           /\ IF IsGroup(Head(input))
              THEN Len(levels') = Len(levels) + 1
              ELSE /\ Len(levels') = Len(levels)
                   /\ IF SameModeKeywordNext
                      THEN /\ levels' = levels
                           /\ input' = input[3].body \o Rest(input, 4)
                      ELSE IF Mode(levels'[1]) # Mode(levels[1])
                      THEN /\ OtherModeKeywordNext
                           /\ input' = input[3].body
                      ELSE /\ input' = Tail(input)
                           /\ Prefix(levels'[1]) = <<Head(input)>> \o Prefix(levels[1])

C32_FinalizerCorrectness ==
    /\ (pc = "reverse" /\ to_reverse # <<>>) =>
           Reverse(to_reverse) \o reversed = Reverse(Prefix(levels[1]))
    /\ pc = "done" =>
           /\ Prefix(levels[1]) # <<>>
           /\ output = Reverse(Prefix(levels[1]))
           /\ \A i \in 1..Len(output) :
                  output[i] = Prefix(levels[1])[Len(output) + 1 - i]

\* a (a {1} b) b has been decoded and returned: the tokens of the block in
\* parentheses are in the order they were written
C32_Witness ==
    /\ pc = "done"
    /\ Prefix(levels[1]) = <<B, Round(<<A, Curly(<<One>>), B>>), A>>
    /\ output = <<A, Round(<<A, Curly(<<One>>), B>>), B>>

\* ------------------------------------------------------------------------
\* C33 (the steps of @reverse_tt): given N tokens, @reverse_tt makes N - 1
\* steps that move the first token of the first list to the front of the
\* second, and then ends by putting the one token left before them; it ends
\* in no other way (short of the recursion limit).  So at every step the two
\* lists hold the N tokens between them, the second as many as steps were
\* made, and the first is not empty.
C33_Count ==
    pc = "reverse" =>
        /\ to_reverse # <<>>
        /\ Len(to_reverse) + Len(reversed) = Len(Prefix(levels[1]))

C33_Step ==
    (pc = "reverse" /\ depth < RecursionLimit) =>
        \/ /\ Len(to_reverse) >= 2
           /\ pc' = "reverse"
           /\ to_reverse' = Tail(to_reverse)
           /\ reversed' = <<Head(to_reverse)>> \o reversed
        \/ /\ Len(to_reverse) = 1
           /\ Len(reversed) = Len(Prefix(levels[1])) - 1
           /\ pc' = "done"
           /\ output' = <<to_reverse[1]>> \o reversed

C33_FinalizerSteps == []C33_Count /\ [][C33_Step]_vars

\* ------------------------------------------------------------------------
\* C34 (the macro_rules! that is emitted): for a declaration of N >= 1 rules,
\* whatever the block types its grammars and expansions are written in, the
\* macro_rules! emitted has 2N rules: first, for the rules 1..N in the order
\* of the declaration, the eager supporting version (the grammar behind
\* `@eager[$($eager_1:tt)*]`, the expansion inside
\* eager_internal!{@from_macro[$($eager_1)*] ..}), then for the rules 1..N in
\* the same order the pure version, with the tokens of the grammar and of the
\* expansion as they were declared.
C34_RegistryConstruction ==
    /\ rpc = "error" => decl0 = <<>>
    /\ rpc \in {"declared", "called", "no_rule"} =>
        LET N == Len(decl0) IN
        /\ N >= 1
        /\ Len(emitted) = 2 * N
        /\ \A i \in 1..N :
            /\ emitted[i].pat =
                   <<At, Ident("eager"), Square(<<Rep("eager_1")>>)>>
                   \o decl0[i].pat
            /\ emitted[i].exp =
                   <<Ident("eager_internal"), Bang,
                     Curly(<<At, Ident("from_macro"), Square(<<Rep("eager_1")>>)>>
                           \o decl0[i].exp)>>
            /\ emitted[N + i].pat = decl0[i].pat
            /\ emitted[N + i].exp = decl0[i].exp

\* two different rules were declared, the first as [..] => (..), the second
\* as (..) => [..], and the macro_rules! of four rules is emitted
C34_Witness ==
    /\ rpc = "declared"
    /\ Len(decl0) = 2
    /\ decl0[1].pd = "Square"
    /\ decl0[1].ed = "Round"
    /\ decl0[2].pd = "Round"
    /\ decl0[2].ed = "Square"
    /\ decl0[1].pat # decl0[2].pat
    /\ Len(emitted) = 4
    /\ emitted[3].pat = decl0[1].pat
    /\ emitted[4].pat = decl0[2].pat

\* ------------------------------------------------------------------------
\* C35 (the shape of the levels): in every decode state there is one level at
\* least; every level below the top one has a block (the one being decoded
\* above it); the top level has a block only when there is no input; a level
\* with a postfix has a block; so the number of levels is one more than the
\* number of blocks being decoded.

\* the blocks being decoded: those of the levels below the top one
BeingDecoded == {i \in 2..Len(levels) : HasBlock(levels[i])}

C35_StackShape ==
    pc = "check" =>
        /\ Len(levels) >= 1
        /\ \A i \in 1..Len(levels) :
               /\ levels[i].kind = "Square"
               /\ Len(levels[i].body) \in {4, 5}
               /\ Postfix(levels[i]) # <<>> => HasBlock(levels[i])
               /\ i >= 2 => HasBlock(levels[i])
        /\ HasBlock(levels[1]) => input = <<>>
        /\ Len(levels) = 1 + Cardinality(BeingDecoded)

\* a block in a block in a block is being decoded, tokens waiting after each
C35_Witness ==
    /\ pc = "check"
    /\ Len(levels) = 4
    /\ ~HasBlock(levels[1])
    /\ input # <<>>
    /\ \A i \in 2..4 : Postfix(levels[i]) # <<>>

\* ------------------------------------------------------------------------
\* The tokens the decoder holds
\* a token sequence with every block written as its delimiters around its
\* tokens
RECURSIVE Flat(_)
Flat(toks) ==
    IF toks = <<>> THEN <<>>
    ELSE (IF IsGroup(Head(toks))
          THEN <<Tok("Open", Head(toks).kind)>> \o Flat(Head(toks).body)
               \o <<Tok("Close", Head(toks).kind)>>
          ELSE <<Head(toks)>>)
         \o Flat(Tail(toks))

\* seq with the first t taken away
RECURSIVE Without(_, _)
Without(seq, t) ==
    IF seq = <<>> THEN <<>>
    ELSE IF Head(seq) = t THEN Tail(seq)
    ELSE <<Head(seq)>> \o Without(Tail(seq), t)

\* the same tokens, each as many times, in any order
RECURSIVE SameTokens(_, _)
SameTokens(a, b) ==
    IF a = <<>> THEN b = <<>>
    ELSE Len(a) = Len(b) /\ SameTokens(Tail(a), Without(b, Head(a)))

\* modefix, prefix, postfix and block of every level
RECURSIVE HeldIn(_)
HeldIn(lvls) ==
    IF lvls = <<>> THEN <<>>
    ELSE Modefix(Head(lvls)) \o Prefix(Head(lvls)) \o Postfix(Head(lvls))
         \o (IF HasBlock(Head(lvls)) THEN <<Block(Head(lvls))>> ELSE <<>>)
         \o HeldIn(Tail(lvls))

Held(s) ==
    IF s.pc = "reverse" THEN s.to_reverse \o s.reversed
    ELSE s.input \o HeldIn(s.levels)

TokensHeld(s) == Flat(Held(s))

KeywordStep == RuleOf(Cur) \in {"IgnoreSameMode", "SwitchMode"}

\* the state after the step
CurNext ==
    [pc |-> pc', callee |-> callee', args |-> args', levels |-> levels',
     input |-> input', to_reverse |-> to_reverse', reversed |-> reversed',
     output |-> output', err |-> err', depth |-> depth',
     dispatched |-> dispatched']

\* C36 (token conservation): every step of the decoder that is neither a call
\* of a macro nor a keyword step (and does not fail) keeps the tokens held in
\* the input and in the modefix, prefix, postfix and block of every level the
\* same as a multiset, and keeps the token stream that the levels and the
\* input stand for the same, token for token and in the same order.
C36_Step ==
    (/\ pc = "check"
     /\ pc' \in {"check", "reverse"}
     /\ ~KeywordStep) =>
        /\ LET before == TokensHeld(Cur)
               after == TokensHeld(CurNext)
           IN  SameTokens(after, before)
        /\ TextOf(CurNext) = TextOf(Cur)

C36_TokenConservation == [][C36_Step]_vars

\* after a call, inside a block being decoded, with tokens in a prefix, in a
\* postfix, in a modefix and in a block
C36_Witness ==
    /\ pc = "check"
    /\ dispatched # <<>>
    /\ Len(levels) >= 2
    /\ \E i \in 1..Len(levels) : Prefix(levels[i]) # <<>>
    /\ \E i \in 1..Len(levels) : Postfix(levels[i]) # <<>>
    /\ \E i \in 1..Len(levels) : Modefix(levels[i]) # <<>>
    /\ \E i \in 1..Len(levels) : HasBlock(levels[i]) /\ Block(levels[i]).body # <<>>

\* ------------------------------------------------------------------------
\* Termination: the compiler expands the pending invocation for as long as
\* there is one, up to its recursion limit
\* ------------------------------------------------------------------------
\* programs that call a macro whose expansion calls the macro again
Endless ==
    {Call("forever", "Curly", <<>>),
     <<A>> \o Call("forever", "Curly", <<>>) \o <<B>>,
     <<A, Curly(<<One>> \o Call("forever", "Curly", <<>>))>>,
     Call("lazy", "Curly", Call("eager", "Curly", Call("forever", "Curly", <<>>)))}

InitTermination ==
    /\ NoDeclaration
    /\ \E p \in Programs \cup ({"eager"} \X Endless) : Start(p[1], p[2])

Terminated == pc \in {"done", "error"}

\* The compiler expands the pending invocation whenever there is one, and
\* every expansion is one level deeper
Expanding == ~Terminated /\ depth' = depth + 1

SpecTermination == InitTermination /\ [][Next]_vars /\ WF_depth(Expanding)

ForeverCalled == \E i \in 1..Len(dispatched) : dispatched[i][1] = Ident("forever")

\* C37 (termination): every expansion of a program ends, with a result or with
\* a compiler error; once the decoder has called a macro whose expansion
\* always calls the macro again, the expansion never gives a result and no
\* output, and it ends with the error of the recursion limit.
C37_Termination ==
    /\ <>Terminated
    /\ [](ForeverCalled => pc # "done" /\ output = <<>>)
    /\ (ForeverCalled ~> (pc = "error" /\ err = "recursion_limit"))

\* the macro that calls itself has been called again and again after tokens
\* were decoded, and the expansion has ended at the recursion limit
C37_Witness ==
    /\ pc = "error"
    /\ err = "recursion_limit"
    /\ Len(dispatched) >= 3
    /\ \A i \in 1..Len(dispatched) : dispatched[i][1] = Ident("forever")
    /\ levels # <<>>
    /\ Prefix(levels[Len(levels)]) # <<>>

====
